---- MODULE Spec2Model ----
(***************************************************************************)
(* Crypto-portfolio application: the session/auth gatekeeper of the two    *)
(* route variants (cookie transport, routes.js with db.js; bearer          *)
(* transport, the /auth router with the Database class) and the            *)
(* market-data gateway with its TTL cache (services/dexpaprika.js).        *)
(*                                                                         *)
(* Time in the gatekeeper part is counted in days (variable now), time in  *)
(* the gateway part in minutes (variable clock).                           *)
(***************************************************************************)
EXTENDS Integers, FiniteSets, Sequences, TLC

(***************************************************************************)
(* Bounds of the model.                                                    *)
(***************************************************************************)
NUsers == 1        \* user ids 1..NUsers
NSalts == 2        \* bcrypt salts 1..NSalts
MaxTokens == 1     \* credentials issued per variant
MaxTime == 8       \* last day the gatekeeper clock reaches
NCalls == 2        \* gateway requests that can be in flight at once
NCoins == 1        \* coin ids 1..NCoins
NBodies == 2       \* distinct non-empty response bodies 1..NBodies
MaxClock == 6      \* last minute the gateway clock reaches
NIds == 2          \* coin ids 1..NIds getCurrentPrices is asked about
MaxIds == 2        \* longest id list handed to getCurrentPrices
NEmails == 2       \* email addresses that registrations and logins use
NSignups == 2      \* registrations that can be in progress at once
NHolders == 2      \* user ids 1..NHolders that hold coins
MaxHolding == 2    \* largest amount of one coin a user comes to hold
MaxPrice == 4      \* largest price getCurrentPrices returns
MaxCoins == 22     \* longest list the provider answers GET /coins with
MaxEvents == 3     \* input events of the search fields
StepMs == 250      \* milliseconds between two moments of the page
MaxMs == 1500      \* last moment of the page, in milliseconds
MaxTotal == 5      \* largest total_value of a portfolio load
MaxLoads == 3      \* portfolio loads of the page

(***************************************************************************)
(* Program constants.                                                      *)
(***************************************************************************)
COOKIE_TOKEN_DAYS == 7      \* expiresIn: '7d', expiresAt.setDate(+7)
BEARER_SHORT_DAYS == 1      \* expiresIn: '24h'
BEARER_LONG_DAYS == 30      \* expiresIn: '30d' (rememberMe)
TTL == 5                    \* cache.TTL: 5 * 60 * 1000 ms, in minutes
DAYS_MAX == -1              \* timeframeMap: 'max'
DEFAULT_DAYS == 700         \* || 7, in hundredths of a day
MAX_POINTS == 365           \* limit: 365
MIN_PASSWORD == 8           \* password.length >= 8
TRENDING_LIMIT == 20        \* .slice(0, 20)
WAIT == 500                 \* debounce(..., 500)
MIN_QUERY == 2              \* query.length < 2

\* activity_logs.action_type ENUM(...)
ACTION_TYPES ==
    {"login", "logout", "coin_added", "coin_removed", "alert_set",
     "alert_triggered", "password_changed", "settings_updated"}

UserIds == 1..NUsers
Salts == 1..NSalts

VARIABLES
    variant,    \* the integration that is deployed: "cookie" or "bearer"
    now,        \* gatekeeper wall clock, in days
    users,      \* ids of the rows of the users table
    sessions,   \* rows of user_sessions
    issued,     \* raw tokens handed out (cookie, or login response body)
    req,        \* the protected request being handled
    loggedOut,  \* raw tokens whose logout request was answered 200
    rejections, \* the gatekeeper's answers to presented credentials so far
    clock,      \* Date.now() of the gateway, in minutes
    cache,      \* the gateway's cache: the maps data and timestamps
    calls,      \* the makeAPIRequest calls, by slot
    lastStored, \* per cache key, what storeInCache was last called with
    accounts,   \* rows of the users table: id, email, password hash
    signups,    \* the registration requests, by slot
    lastLogin,  \* the last login request and its answer
    registered, \* the email/password pairs whose registration was answered 201
    portfolio,  \* rows of the portfolio table (cookie variant)
    user_coins, \* rows of the user_coins table (bearer variant)
    coins,      \* ids of the rows of the coins table (bearer variant)
    added,      \* per (user id, coin id), the sum of the amounts added
    reply,      \* the last answer to a portfolio request
    trend,      \* the last answer of GET /coins/trending (bearer variant)
    search,     \* the page's search: time, timers, requests sent, events
    display,    \* the page's portfolio total and balance visibility
    op          \* the gateway operation (getTrendingCoins, ...) in progress

authVars == <<variant, now, users, sessions, issued, req, loggedOut, rejections>>

cacheVars == <<clock, cache, calls, lastStored>>

opVars == <<op>>

accountVars == <<accounts, signups, lastLogin, registered>>

folioVars == <<portfolio, user_coins, coins, added, reply>>

pageVars == <<trend, search, display>>

notPageVars == <<authVars, cacheVars, opVars, accountVars, folioVars>>

notFolioVars == <<authVars, cacheVars, opVars, accountVars, pageVars>>

vars == <<authVars, cacheVars, opVars, accountVars, folioVars, pageVars>>

\* What the gatekeeper's steps, and the steps of makeAPIRequest calls made
\* on their own, leave alone.
notAuthVars == <<cacheVars, opVars, accountVars, folioVars, pageVars>>

notAuthAccountVars == <<cacheVars, opVars, folioVars, pageVars>>

notCacheVars == <<authVars, opVars, accountVars, folioVars, pageVars>>

(***************************************************************************)
(* Credentials.  A raw token is a word on the wire: no token, a string     *)
(* that is not signed under JWT_SECRET, or a JWT signed by the server.     *)
(***************************************************************************)
NoCred == [kind |-> "none", sub |-> 0, iat |-> 0, exp |-> 0]
Garbage == [kind |-> "garbage", sub |-> 0, iat |-> 0, exp |-> 0]
Scheme == [kind |-> "scheme", sub |-> 0, iat |-> 0, exp |-> 0]

\* jwt.sign(payload, JWT_SECRET, {expiresIn}): subject, issue time, expiry.
JwtSign(u, t, life) == [kind |-> "jwt", sub |-> u, iat |-> t, exp |-> t + life]

\* jwt.verify(token, JWT_SECRET): TRUE when the callback gets no err, that
\* is the signature verifies and the clock has not reached exp.
JwtVerify(tok, t) == tok.kind = "jwt" /\ t < tok.exp

\* bcrypt.hash(token, 10): the digest depends on the token and on a salt
\* that bcrypt draws at random on every call.
hashToken(tok, salt) == <<tok, salt>>

NoHash == <<NoCred, 0>>

\* req.cookies?.token
CookieToken(carried) == IF Len(carried) >= 1 THEN carried[1] ELSE NoCred

\* authHeader && authHeader.split(' ')[1]
BearerToken(carried) == IF Len(carried) >= 2 THEN carried[2] ELSE NoCred

\* !token
Missing(tok) == tok.kind = "none"

\* A request as it reaches the router: what it carries (the cookie jar, or
\* the words of the Authorization header) and the route it asks for.
NewReq(v, carried, route) ==
    [variant |-> v, carried |-> carried, route |-> route,
     pc |-> "idle", token |-> NoCred, at |-> 0, tokenHash |-> NoHash,
     status |-> 0, body |-> "", user |-> 0, nextCalls |-> 0,
     responses |-> 0, handlerRan |-> FALSE]

\* res.status(s).json({error|message: b}) sent by the middleware
Respond(r, s, b) ==
    [r EXCEPT !.pc = "closed", !.status = s, !.body = b,
              !.responses = @ + 1]

\* req.user = ...; next()
Accept(r, u) == [r EXCEPT !.pc = "handler", !.user = u, !.nextCalls = @ + 1]

Variants == {"cookie", "bearer"}

InitAuth ==
    /\ variant \in Variants
    /\ now = 0
    /\ users = {}
    /\ sessions = {}
    /\ issued = {}
    /\ req = NewReq(variant, <<>>, "user")
    /\ loggedOut = {}
    /\ rejections = {}

(***************************************************************************)
(* Cookie variant (routes.js with db.js).                                  *)
(***************************************************************************)

\* db.storeSessionToken(userId, tokenHash, expiresAt)
storeSessionToken(rows, userId, tokenHash, expiresAt) ==
    rows \cup {[user_id |-> userId, token_hash |-> tokenHash,
                expires_at |-> expiresAt]}

\* db.verifySessionToken(tokenHash): the rows of
\* WHERE us.token_hash = ? AND us.expires_at > NOW()
verifySessionToken(rows, tokenHash, t) ==
    {row \in rows : row.token_hash = tokenHash /\ row.expires_at > t}

\* DELETE FROM user_sessions, without a WHERE
cleanupAllSessions(rows, t) == {}

\* db.cleanupExpiredSessions(): DELETE ... WHERE expires_at <= NOW()
cleanupExpiredSessions(rows, t) == {row \in rows : ~(row.expires_at <= t)}

\* A call of db.cleanupExpiredSessions, which the module exports.
CleanupExpiredSessions ==
    /\ variant = "cookie"
    /\ sessions' = cleanupExpiredSessions(sessions, now)
    /\ UNCHANGED <<variant, now, users, issued, req, loggedOut, rejections>>
    /\ UNCHANGED notAuthVars

\* The part of /api/register and /api/login after the user row is known:
\* sign, hash, store the session row, set the cookie.
IssueCookie(u, salt) ==
    LET token == JwtSign(u, now, COOKIE_TOKEN_DAYS)
        tokenHash == hashToken(token, salt)
    IN  /\ token \in issued \/ Cardinality(issued) < MaxTokens
        /\ sessions' = storeSessionToken(sessions, u, tokenHash,
                                         now + COOKIE_TOKEN_DAYS)
        /\ issued' = issued \cup {token}

\* POST /api/register with a fresh email: 201 and a credential.
Register(u, salt) ==
    /\ variant = "cookie"
    /\ u \notin users
    /\ users' = users \cup {u}
    /\ IssueCookie(u, salt)
    /\ UNCHANGED <<variant, now, req, loggedOut, rejections>>
    /\ UNCHANGED notAuthVars

\* POST /api/login with the right password: 200 and a credential.
Login(u, salt) ==
    /\ variant = "cookie"
    /\ u \in users
    /\ IssueCookie(u, salt)
    /\ UNCHANGED <<variant, now, users, req, loggedOut, rejections>>
    /\ UNCHANGED notAuthVars

\* CookieGate with the jwt.verify error answered like a missing cookie.
CookieGateErrAs401(r, t) ==
    LET token == CookieToken(r.carried)
        seen == [r EXCEPT !.token = token, !.at = t]
    IN  IF Missing(token) \/ ~JwtVerify(token, t)
        THEN Respond(seen, 401, "Authentication required")
        ELSE [seen EXCEPT !.pc = "hashing"]

\* authenticateToken of routes.js up to the first await: the cookie is
\* read, jwt.verify runs and calls back.
CookieGate(r, t) ==
    LET token == CookieToken(r.carried)
        seen == [r EXCEPT !.token = token, !.at = t]
    IN  IF Missing(token)
        THEN Respond(seen, 401, "Authentication required")
        ELSE IF ~JwtVerify(token, t)
        THEN Respond(seen, 403, "Invalid or expired token")
        ELSE [seen EXCEPT !.pc = "hashing"]

\* What the client of a variant can put on the wire.
CookieJars == {<<>>, <<Garbage>>} \cup {<<tok>> : tok \in issued}

Routes == {"user", "logout"}

\* The cause of a rejection, as the server knows it.
Cause(tok, t) ==
    IF tok.kind # "jwt" THEN "garbage"
    ELSE IF ~(t < tok.exp) THEN "expired" ELSE "norow"

Rejection(r) ==
    [variant |-> r.variant, cause |-> Cause(r.token, r.at),
     status |-> r.status, body |-> r.body]

\* Remember the answer when the middleware turned a presented credential
\* down.
Noted(r) ==
    IF r.pc = "closed" /\ ~Missing(r.token) /\ r.nextCalls = 0
       /\ r.status \in {401, 403}
    THEN rejections \cup {Rejection(r)}
    ELSE rejections

CookieRequest(carried, route) ==
    /\ variant = "cookie"
    /\ req.pc \in {"idle", "closed", "abandoned"}
    /\ req' = CookieGate(NewReq("cookie", carried, route), now)
    /\ rejections' = Noted(req')
    /\ UNCHANGED <<variant, now, users, sessions, issued, loggedOut>>
    /\ UNCHANGED notAuthVars

\* const tokenHash = await hashToken(token)
CookieHash(salt) ==
    /\ req.variant = "cookie" /\ req.pc = "hashing"
    /\ req' = [req EXCEPT !.tokenHash = hashToken(req.token, salt),
                          !.pc = "dbLookup"]
    /\ UNCHANGED <<variant, now, users, sessions, issued, loggedOut,
                   rejections>>
    /\ UNCHANGED notAuthVars

\* const session = await db.verifySessionToken(tokenHash) and what follows
CookieSession(r, rows, t) ==
    LET found == verifySessionToken(rows, r.tokenHash, t)
    IN  IF found = {}
        THEN Respond(r, 403, "Session expired")
        ELSE Accept(r, (CHOOSE row \in found : TRUE).user_id)

CookieSessionLookup ==
    /\ req.variant = "cookie" /\ req.pc = "dbLookup"
    /\ req' = CookieSession(req, sessions, now)
    /\ rejections' = Noted(req')
    /\ UNCHANGED <<variant, now, users, sessions, issued, loggedOut>>
    /\ UNCHANGED notAuthVars

\* db.verifySessionToken throws (pool or query error): the async callback
\* handed to jwt.verify rejects, nothing awaits or catches it, and the
\* request gets neither a response nor next().
CookieLookupThrows ==
    /\ req.variant = "cookie" /\ req.pc = "dbLookup"
    /\ req' = [req EXCEPT !.pc = "abandoned"]
    /\ UNCHANGED <<variant, now, users, sessions, issued, loggedOut,
                   rejections>>
    /\ UNCHANGED notAuthVars

(***************************************************************************)
(* Bearer variant (the /auth router with the Database class).  Its login   *)
(* stores no session row: Database.createSession has no caller.            *)
(***************************************************************************)

\* POST /auth/signup with a fresh email: 201, no credential.
Signup(u) ==
    /\ variant = "bearer"
    /\ u \notin users
    /\ users' = users \cup {u}
    /\ UNCHANGED <<variant, now, sessions, issued, req, loggedOut, rejections>>
    /\ UNCHANGED notAuthVars

\* expiresIn: rememberMe ? '30d' : '24h'
BearerLife(rememberMe) ==
    IF rememberMe THEN BEARER_LONG_DAYS ELSE BEARER_SHORT_DAYS

\* POST /auth/login with the right password: the token goes into the
\* response body and nowhere else.
BearerLogin(u, rememberMe) ==
    LET token == JwtSign(u, now, BearerLife(rememberMe))
    IN  /\ variant = "bearer"
        /\ u \in users
        /\ token \in issued \/ Cardinality(issued) < MaxTokens
        /\ issued' = issued \cup {token}
        /\ UNCHANGED <<variant, now, users, sessions, req, loggedOut,
                       rejections>>
        /\ UNCHANGED notAuthVars

\* authenticateToken of the /auth router up to the first await.
BearerGate(r, t) ==
    LET token == BearerToken(r.carried)
        seen == [r EXCEPT !.token = token, !.at = t]
    IN  IF Missing(token)
        THEN Respond(seen, 401, "Access token required")
        ELSE IF ~JwtVerify(token, t)
        THEN Respond(seen, 403, "Invalid or expired token")
        ELSE [seen EXCEPT !.pc = "dbLookup"]

\* Authorization headers: none, a scheme alone, a scheme and a token, a
\* token alone.
BearerHeaders ==
    {<<>>, <<Scheme>>, <<Scheme, Garbage>>}
        \cup {<<Scheme, tok>> : tok \in issued}
        \cup {<<tok>> : tok \in issued}

BearerRequest(carried, route) ==
    /\ variant = "bearer"
    /\ req.pc \in {"idle", "closed", "abandoned"}
    /\ req' = BearerGate(NewReq("bearer", carried, route), now)
    /\ rejections' = Noted(req')
    /\ UNCHANGED <<variant, now, users, sessions, issued, loggedOut>>
    /\ UNCHANGED notAuthVars

\* const dbUser = await db.getUserById(user.id) and what follows
BearerUser(r, rows) ==
    IF r.token.sub \notin rows
    THEN Respond(r, 403, "User not found")
    ELSE Accept(r, r.token.sub)

BearerUserLookup ==
    /\ req.variant = "bearer" /\ req.pc = "dbLookup"
    /\ req' = BearerUser(req, users)
    /\ rejections' = Noted(req')
    /\ UNCHANGED <<variant, now, users, sessions, issued, loggedOut>>
    /\ UNCHANGED notAuthVars

\* db.getUserById throws: the try/catch around it answers 500.
BearerLookupThrows ==
    /\ req.variant = "bearer" /\ req.pc = "dbLookup"
    /\ req' = Respond(req, 500, "Internal server error")
    /\ UNCHANGED <<variant, now, users, sessions, issued, loggedOut,
                   rejections>>
    /\ UNCHANGED notAuthVars

(***************************************************************************)
(* Route handlers behind the gatekeeper.                                   *)
(***************************************************************************)

Handled(r, s, b) ==
    [r EXCEPT !.pc = "closed", !.status = s, !.body = b,
              !.responses = @ + 1, !.handlerRan = TRUE]

\* POST /api/logout: the token is hashed, the hash is dropped, the cookie
\* is cleared; no row of user_sessions is touched.
CookieLogoutRows(rows, tok) == rows

CookieLogout ==
    /\ req.variant = "cookie" /\ req.pc = "handler" /\ req.route = "logout"
    /\ sessions' = CookieLogoutRows(sessions, req.token)
    /\ req' = Handled(req, 200, "Logout successful")
    /\ loggedOut' = loggedOut \cup {req.token}
    /\ UNCHANGED <<variant, now, users, issued, rejections>>
    /\ UNCHANGED notAuthVars

\* POST /auth/logout: an activity-log row is written; nothing else.
BearerLogout ==
    /\ req.variant = "bearer" /\ req.pc = "handler" /\ req.route = "logout"
    /\ req' = Handled(req, 200, "Logout successful")
    /\ loggedOut' = loggedOut \cup {req.token}
    /\ UNCHANGED <<variant, now, users, sessions, issued, rejections>>
    /\ UNCHANGED notAuthVars

\* Any other protected route (GET /api/user, GET /auth/me, ...).
ProtectedRoute ==
    /\ req.pc = "handler" /\ req.route = "user"
    /\ req' = Handled(req, 200, "ok")
    /\ UNCHANGED <<variant, now, users, sessions, issued, loggedOut,
                   rejections>>
    /\ UNCHANGED notAuthVars

\* Wall-clock time passes.
Tick(d) ==
    /\ now + d <= MaxTime
    /\ now' = now + d
    /\ UNCHANGED <<variant, users, sessions, issued, req, loggedOut,
                   rejections>>
    /\ UNCHANGED notAuthVars

TickSteps == {COOKIE_TOKEN_DAYS}

(***************************************************************************)
(* Accounts: registration and login by email and password, in both         *)
(* variants.  A registration is handled in two steps (validation, then the *)
(* INSERT and what follows), so that two of them can overlap.              *)
(***************************************************************************)
Emails == {<<"user", i, "@b.com">> : i \in 1..NEmails}

Passwords == {"password123", "password124", "short"}

\* The passwords that registrations use.
NewPasswords == {"password123", "short"}

SignupIds == 1..NSignups

\* password.length < 8 / validatePassword
validatePassword(password) == Len(password) >= MIN_PASSWORD

\* bcrypt.hash(password, 10) and bcrypt.compare(password, hash)
bcryptHash(password, salt) == <<password, salt>>

bcryptCompare(password, hash) == hash[1] = password

\* SELECT ... FROM users WHERE email = ?
getUserByEmail(rows, email) == {row \in rows : row.email = email}

\* INSERT INTO users: email is UNIQUE, id is AUTO_INCREMENT.
DuplicateEmail(rows, email) == getUserByEmail(rows, email) # {}

createUser(rows, email, hash) ==
    rows \cup {[id |-> Cardinality(rows) + 1, email |-> email,
                password_hash |-> hash]}

\* db.verifyUser(email, password): the rows it would return
verifyUser(rows, email, password) ==
    {row \in getUserByEmail(rows, email) :
        bcryptCompare(password, row.password_hash)}

IdleSignup ==
    [pc |-> "idle", email |-> <<>>, password |-> "", status |-> 0,
     existedAtStart |-> FALSE, created |-> FALSE]

NoLogin ==
    [email |-> <<>>, password |-> "", status |-> 0, token |-> NoCred,
     user |-> 0, matched |-> FALSE, wasRegistered |-> FALSE]

InitAccounts ==
    /\ accounts = {}
    /\ signups = [s \in SignupIds |-> IdleSignup]
    /\ lastLogin = NoLogin
    /\ registered = {}

\* A registration request as the handler first sees it.
NewSignup(email, password) ==
    [IdleSignup EXCEPT !.pc = "creating", !.email = email,
                       !.password = password,
                       !.existedAtStart = DuplicateEmail(accounts, email)]

Answer(signup, status) == [signup EXCEPT !.pc = "closed", !.status = status]

\* POST /api/register up to the await of db.createUser: the field checks.
RegisterRequest(s, email, password) ==
    /\ variant = "cookie"
    /\ signups[s].pc # "creating"
    /\ signups' = [signups EXCEPT ![s] =
                      IF ~validatePassword(password)
                      THEN Answer(NewSignup(email, password), 400)
                      ELSE NewSignup(email, password)]
    /\ UNCHANGED <<accounts, lastLogin, registered>>
    /\ UNCHANGED <<authVars, notAuthAccountVars>>

\* POST /api/register from db.createUser on: the INSERT (ER_DUP_ENTRY is
\* answered 409), then the token, its hash, the session row, the cookie,
\* and 201.
RegisterInsert(s, salt) ==
    /\ variant = "cookie"
    /\ signups[s].pc = "creating"
    /\ IF DuplicateEmail(accounts, signups[s].email)
       THEN /\ signups' = [signups EXCEPT ![s] = Answer(@, 409)]
            /\ UNCHANGED <<accounts, registered, users, sessions, issued>>
       ELSE /\ accounts' = createUser(accounts, signups[s].email,
                                      bcryptHash(signups[s].password, salt))
            /\ users' = users \cup {Cardinality(accounts) + 1}
            /\ IssueCookie(Cardinality(accounts) + 1, salt)
            /\ signups' = [signups EXCEPT
                              ![s] = Answer([@ EXCEPT !.created = TRUE], 201)]
            /\ registered' = registered \cup
                  {[email |-> signups[s].email,
                    password |-> signups[s].password]}
    /\ UNCHANGED lastLogin
    /\ UNCHANGED <<variant, now, req, loggedOut, rejections>>
    /\ UNCHANGED notAuthAccountVars

\* POST /auth/signup up to the await of bcrypt.hash: the field checks and
\* the lookup of the email.
SignupRequest(s, email, password) ==
    /\ variant = "bearer"
    /\ signups[s].pc # "creating"
    /\ signups' = [signups EXCEPT ![s] =
                      IF ~validatePassword(password)
                      THEN Answer(NewSignup(email, password), 400)
                      ELSE IF getUserByEmail(accounts, email) # {}
                      THEN Answer(NewSignup(email, password), 409)
                      ELSE NewSignup(email, password)]
    /\ UNCHANGED <<accounts, lastLogin, registered>>
    /\ UNCHANGED <<authVars, notAuthAccountVars>>

\* The action types that the routes pass to db.logActivity.
LoggedActions ==
    {"signup", "login", "logout", "password_changed", "coin_added",
     "alert_set", "settings_updated"}

\* db.logActivity(userId, actionType): the INSERT of a value that is not in
\* the action_type ENUM throws when the server's sql_mode is strict and
\* stores '' when it is not.
LogActivityThrows(actionType, strict) ==
    actionType \notin ACTION_TYPES /\ strict

\* POST /auth/signup from db.createUser on: the INSERT, the default
\* settings, the activity log, and 201; anything thrown is answered 500.
SignupInsert(s, salt, strict) ==
    /\ variant = "bearer"
    /\ signups[s].pc = "creating"
    /\ IF DuplicateEmail(accounts, signups[s].email)
       THEN /\ signups' = [signups EXCEPT ![s] = Answer(@, 500)]
            /\ UNCHANGED <<accounts, registered, users>>
       ELSE /\ accounts' = createUser(accounts, signups[s].email,
                                      bcryptHash(signups[s].password, salt))
            /\ users' = users \cup {Cardinality(accounts) + 1}
            /\ IF LogActivityThrows("signup", strict)
               THEN /\ signups' = [signups EXCEPT
                          ![s] = Answer([@ EXCEPT !.created = TRUE], 500)]
                    /\ UNCHANGED registered
               ELSE /\ signups' = [signups EXCEPT
                          ![s] = Answer([@ EXCEPT !.created = TRUE], 201)]
                    /\ registered' = registered \cup
                          {[email |-> signups[s].email,
                            password |-> signups[s].password]}
    /\ UNCHANGED lastLogin
    /\ UNCHANGED <<variant, now, sessions, issued, req, loggedOut, rejections>>
    /\ UNCHANGED notAuthAccountVars

\* The login response, with what was true when the login was handled: the
\* id of the row of the email (0 if none), whether the row's hash matched
\* the password, whether the pair had been registered with a 201.
LoginReply(email, password, status, token) ==
    LET rows == getUserByEmail(accounts, email)
    IN  [email |-> email, password |-> password, status |-> status,
         token |-> token,
         user |-> IF rows = {} THEN 0 ELSE (CHOOSE row \in rows : TRUE).id,
         matched |-> \E row \in rows :
                        bcryptCompare(password, row.password_hash),
         wasRegistered |-> [email |-> email, password |-> password]
                              \in registered]

\* POST /api/login: db.verifyUser, then as in registration the token, its
\* hash, the session row and the cookie.
LoginAttempt(email, password, salt) ==
    LET found == verifyUser(accounts, email, password)
        user == CHOOSE row \in found : TRUE
    IN  /\ variant = "cookie"
        /\ IF found = {}
           THEN /\ lastLogin' = LoginReply(email, password, 401, NoCred)
                /\ UNCHANGED <<sessions, issued>>
           ELSE /\ IssueCookie(user.id, salt)
                /\ lastLogin' = LoginReply(email, password, 200,
                                    JwtSign(user.id, now, COOKIE_TOKEN_DAYS))
        /\ UNCHANGED <<accounts, signups, registered>>
        /\ UNCHANGED <<variant, now, users, req, loggedOut, rejections>>
        /\ UNCHANGED notAuthAccountVars

\* POST /auth/login: getUserByEmail, bcrypt.compare, the token, the
\* activity log.
BearerLoginAttempt(email, password, rememberMe, strict) ==
    LET found == getUserByEmail(accounts, email)
        user == CHOOSE row \in found : TRUE
        token == JwtSign(user.id, now, BearerLife(rememberMe))
    IN  /\ variant = "bearer"
        /\ IF found = {} \/ ~bcryptCompare(password, user.password_hash)
           THEN /\ lastLogin' = LoginReply(email, password, 401, NoCred)
                /\ UNCHANGED issued
           ELSE /\ token \in issued \/ Cardinality(issued) < MaxTokens
                /\ issued' = issued \cup {token}
                /\ lastLogin' =
                      IF LogActivityThrows("login", strict)
                      THEN LoginReply(email, password, 500, NoCred)
                      ELSE LoginReply(email, password, 200, token)
        /\ UNCHANGED <<accounts, signups, registered>>
        /\ UNCHANGED <<variant, now, users, sessions, req, loggedOut,
                       rejections>>
        /\ UNCHANGED notAuthAccountVars

(***************************************************************************)
(* Market-data gateway (services/dexpaprika.js).                           *)
(*                                                                         *)
(* A string is the sequence of its pieces; a JSON body is a number, 0      *)
(* standing for the bodies JavaScript takes as false (null, 0, false, ""). *)
(***************************************************************************)
Coins == 1..NCoins
Bodies == 0..NBodies
CallIds == 1..NCalls

BASE_URL == "https://api.coinpaprika.com/v1"

\* ENDPOINTS.TICKER_BY_ID(id), ENDPOINTS.COIN_BY_ID(id)
TICKER_BY_ID(id) == <<"/tickers/", id>>
COIN_BY_ID(id) == <<"/coins/", id>>

\* new URLSearchParams(params).toString(): name=value pairs in insertion
\* order, joined by "&".
RECURSIVE QueryString(_)
QueryString(params) ==
    IF Len(params) = 0 THEN <<>>
    ELSE IF Len(params) = 1 THEN <<params[1][1], "=", params[1][2]>>
    ELSE <<params[1][1], "=", params[1][2], "&">> \o QueryString(Tail(params))

\* The url makeAPIRequest builds; it is the cache key.
BuildURL(endpoint, params) ==
    <<BASE_URL>> \o endpoint
        \o (IF Len(params) > 0 THEN <<"?">> \o QueryString(params) ELSE <<>>)

\* The request getCoinCurrentPrice makes.
PriceRequest(coinId) ==
    [endpoint |-> TICKER_BY_ID(coinId), params |-> << <<"quotes", "USD">> >>]

\* The ticker request of getCoinDetails with no query parameters.
DetailsTickerRequestBare(coinId) ==
    [endpoint |-> TICKER_BY_ID(coinId), params |-> <<>>]

\* The ticker request getCoinDetails makes.
DetailsTickerRequest(coinId) ==
    [endpoint |-> TICKER_BY_ID(coinId), params |-> << <<"quotes", "USD">> >>]

\* The coin-info request getCoinDetails makes.
DetailsInfoRequest(coinId) ==
    [endpoint |-> COIN_BY_ID(coinId), params |-> <<>>]

Ops == {"price", "detailsTicker", "detailsInfo"}

RequestOf(kind, coinId) ==
    IF kind = "price" THEN PriceRequest(coinId)
    ELSE IF kind = "detailsTicker" THEN DetailsTickerRequest(coinId)
    ELSE DetailsInfoRequest(coinId)

\* JavaScript truthiness of a number.
Truthy(x) == x # 0

Remove(f, key) == [k \in DOMAIN f \ {key} |-> f[k]]

Put(f, key, x) == (key :> x) @@ f

Get(f, key) == IF key \in DOMAIN f THEN f[key] ELSE 0

\* getFromCache that forgets the data of an expired key and keeps its
\* timestamp.
getFromCacheKeepingStamp(c, key, t) ==
    LET timestamp == IF key \in DOMAIN c.timestamps THEN c.timestamps[key]
                     ELSE 0
        data == IF key \in DOMAIN c.data THEN c.data[key] ELSE 0
    IN  IF timestamp # 0 /\ data # 0
        THEN IF t - timestamp < TTL
             THEN [data |-> c.data, timestamps |-> c.timestamps,
                   value |-> data]
             ELSE [data |-> [k \in DOMAIN c.data \ {key} |-> c.data[k]],
                   timestamps |-> c.timestamps, value |-> 0]
        ELSE [data |-> c.data, timestamps |-> c.timestamps, value |-> 0]

\* getFromCache(key) at time t: the maps afterwards and the value returned
\* (0 for null).
getFromCache(c, key, t) ==
    LET timestamp == Get(c.timestamps, key)
        data == Get(c.data, key)
    IN  IF Truthy(timestamp) /\ Truthy(data)
        THEN IF t - timestamp < TTL
             THEN [data |-> c.data, timestamps |-> c.timestamps,
                   value |-> data]
             ELSE [data |-> Remove(c.data, key),
                   timestamps |-> Remove(c.timestamps, key), value |-> 0]
        ELSE [data |-> c.data, timestamps |-> c.timestamps, value |-> 0]

\* storeInCache that leaves the data of a key it already holds.
storeInCacheKeepFirst(c, key, data, t) ==
    [data |-> IF key \in DOMAIN c.data THEN c.data ELSE Put(c.data, key, data),
     timestamps |-> Put(c.timestamps, key, t)]

\* storeInCache(key, data) at time t
storeInCache(c, key, data, t) ==
    [data |-> Put(c.data, key, data), timestamps |-> Put(c.timestamps, key, t)]

NoPrior == [data |-> 0, at |-> 0]

\* How an HTTP call goes wrong: fetch rejects (network error), or the
\* response is not ok (status and statusText of the upstream answer).
NoFailure == [kind |-> "none", status |-> "", text |-> ""]

Failures ==
    {[kind |-> "http", status |-> "404", text |-> "Not Found"],
     [kind |-> "network", status |-> "", text |-> "fetch failed"]}

\* error.message as the catch block of makeAPIRequest sees it
FetchError(failure) ==
    IF failure.kind = "http"
    THEN <<"API request failed: ", failure.status, " ", failure.text>>
    ELSE <<failure.text>>

\* The message of the Error makeAPIRequest throws.
makeAPIRequestError(failure) ==
    <<"Failed to fetch data from DexPaprika API: ">> \o FetchError(failure)

IdleCall ==
    [pc |-> "idle", op |-> "price", coin |-> 1, url |-> <<>>, startedAt |-> 0,
     prior |-> NoPrior, fetches |-> 0, result |-> 0, failure |-> NoFailure,
     error |-> <<>>]

InitCache ==
    /\ clock = 1
    /\ cache = [data |-> <<>>, timestamps |-> <<>>]
    /\ calls = [r \in CallIds |-> IdleCall]
    /\ lastStored = <<>>

\* makeAPIRequest(endpoint, params) up to the await of fetch: the url is
\* built, the cache is consulted, a hit returns.  prior notes what was last
\* stored under the url when the call began.
StartCall(r, kind, coinId) ==
    LET request == RequestOf(kind, coinId)
        url == BuildURL(request.endpoint, request.params)
        looked == getFromCache(cache, url, clock)
        hit == Truthy(looked.value)
    IN  /\ calls[r].pc # "fetching"
        /\ cache' = [data |-> looked.data, timestamps |-> looked.timestamps]
        /\ calls' = [calls EXCEPT ![r] =
                       [pc |-> IF hit THEN "done" ELSE "fetching", op |-> kind,
                        coin |-> coinId, url |-> url, startedAt |-> clock,
                        prior |-> IF url \in DOMAIN lastStored
                                  THEN lastStored[url] ELSE NoPrior,
                        fetches |-> 0, result |-> looked.value,
                        failure |-> NoFailure, error |-> <<>>]]
        /\ UNCHANGED <<clock, lastStored>>
        /\ UNCHANGED notCacheVars

\* fetch answered 2xx and response.json() gave data: it is stored and
\* returned.
FetchOk(r, data) ==
    /\ calls[r].pc = "fetching"
    /\ cache' = storeInCache(cache, calls[r].url, data, clock)
    /\ calls' = [calls EXCEPT ![r].pc = "done", ![r].result = data,
                              ![r].fetches = @ + 1]
    /\ lastStored' = Put(lastStored, calls[r].url,
                         [data |-> data, at |-> clock])
    /\ UNCHANGED clock
    /\ UNCHANGED notCacheVars

\* A failing call that caches the null it has in place of a body.
FetchFailsStoring(r, failure) ==
    /\ calls[r].pc = "fetching"
    /\ cache' = storeInCache(cache, calls[r].url, 0, clock)
    /\ calls' = [calls EXCEPT ![r].pc = "failed", ![r].fetches = @ + 1,
                              ![r].failure = failure,
                              ![r].error = makeAPIRequestError(failure)]
    /\ UNCHANGED <<clock, lastStored>>
    /\ UNCHANGED notCacheVars

\* fetch rejected, or answered non-2xx: makeAPIRequest throws
\* 'Failed to fetch data from DexPaprika API: ...' and stores nothing.
FetchFails(r, failure) ==
    /\ calls[r].pc = "fetching"
    /\ calls' = [calls EXCEPT ![r].pc = "failed", ![r].fetches = @ + 1,
                              ![r].failure = failure,
                              ![r].error = makeAPIRequestError(failure)]
    /\ UNCHANGED <<clock, cache, lastStored>>
    /\ UNCHANGED notCacheVars

\* Time passes.
AdvanceClock(d) ==
    /\ clock + d <= MaxClock
    /\ clock' = clock + d
    /\ UNCHANGED <<cache, calls, lastStored>>
    /\ UNCHANGED notCacheVars

ClockSteps == {TTL - 1, TTL}

(***************************************************************************)
(* Gateway operations built on makeAPIRequest: getTrendingCoins,           *)
(* getCurrentPrices, getCoinDetails, getCoinOHLCV.  One operation runs at  *)
(* a time; its requests are the sub-requests of the record op.             *)
(*                                                                         *)
(* What a body number stands for depends on the endpoint.  On a list       *)
(* endpoint 0 is null and b >= 1 is an array of b - 1 items; on            *)
(* /tickers/{id} 0 is null, 1 is a ticker without a USD price and b >= 2   *)
(* is a ticker whose USD price is b - 1; on /coins/{id} 0 is null and      *)
(* b >= 1 is a coin object.                                                *)
(***************************************************************************)
Ids == 1..NIds

\* The id lists getCurrentPrices is called with.
IdLists == UNION {[1..n -> Ids] : n \in 0..MaxIds}

POPULAR == <<"/coins/most-viewed">>
TOP_GAINERS == <<"/coins/top-gainers">>
TOP_LOSERS == <<"/coins/top-losers">>
RECENTLY_ADDED == <<"/coins/new">>
TICKERS == <<"/tickers">>
OHLCV_TODAY(id) == <<"/coins/", id, "/ohlcv/today">>
OHLCV_HISTORICAL(id) == <<"/coins/", id, "/ohlcv/historical">>

\* Array.isArray-like: the body has a map/forEach method.
IsArray(body) == body >= 1

\* The items of an array body: item k has id k and USD price b - k.
ArrayOf(body) == [k \in 1..(body - 1) |-> [id |-> k, price |-> body - k]]

\* ticker.quotes?.USD?.price of a ticker object (0 for undefined)
TickerPrice(body) == body - 1

\* x || 0
Or0(x) == IF Truthy(x) THEN x ELSE 0

\* A request of an operation: not yet made (todo), awaiting fetch
\* (pending), or settled; hit tells a cached value from a fetched one.
NewSub(request) ==
    [url |-> BuildURL(request.endpoint, request.params), state |-> "todo",
     value |-> 0, hit |-> FALSE, failure |-> NoFailure]

\* makeAPIRequest up to the await of fetch, for a request of an operation.
Issue(c, sub, t) ==
    LET looked == getFromCache(c, sub.url, t)
    IN  [cache |-> [data |-> looked.data, timestamps |-> looked.timestamps],
         sub |-> IF Truthy(looked.value)
                 THEN [sub EXCEPT !.state = "fulfilled",
                                  !.value = looked.value, !.hit = TRUE]
                 ELSE [sub EXCEPT !.state = "pending"]]

\* The calls of an array literal handed to Promise.allSettled, left to
\* right.
RECURSIVE IssueAll(_, _, _)
IssueAll(c, subs, t) ==
    IF subs = <<>> THEN [cache |-> c, subs |-> <<>>]
    ELSE LET first == Issue(c, Head(subs), t)
             rest == IssueAll(first.cache, Tail(subs), t)
         IN  [cache |-> rest.cache, subs |-> <<first.sub>> \o rest.subs]

IdleOp ==
    [kind |-> "none", pc |-> "idle", ids |-> <<>>, coin |-> 0,
     timeframe |-> "", subs |-> <<>>, result |-> <<>>, error |-> <<>>]

InitOp == op = IdleOp

OpFree == op.pc \in {"idle", "returned", "rejected"}

Settled(sub) == sub.state \in {"fulfilled", "rejected"}

AllSettled(subs) == \A i \in DOMAIN subs : Settled(subs[i])

\* What the operations' steps leave alone.
notOpVars == <<authVars, clock, calls, lastStored, accountVars, folioVars, pageVars>>

\* fetch of a pending request answered 2xx with a JSON body: stored,
\* returned.
SubFetchOk(i, data) ==
    /\ op.pc = "running"
    /\ i \in DOMAIN op.subs /\ op.subs[i].state = "pending"
    /\ cache' = storeInCache(cache, op.subs[i].url, data, clock)
    /\ op' = [op EXCEPT !.subs[i].state = "fulfilled",
                        !.subs[i].value = data]
    /\ UNCHANGED notOpVars

\* fetch of a pending request rejected or answered non-2xx.
SubFetchFails(i, failure) ==
    /\ op.pc = "running"
    /\ i \in DOMAIN op.subs /\ op.subs[i].state = "pending"
    /\ op' = [op EXCEPT !.subs[i].state = "rejected",
                        !.subs[i].failure = failure]
    /\ UNCHANGED cache
    /\ UNCHANGED notOpVars

TypeError == <<"TypeError">>

(***************************************************************************)
(* getTrendingCoins                                                        *)
(***************************************************************************)
TrendingEndpoints == <<POPULAR, TOP_GAINERS, TOP_LOSERS, RECENTLY_ADDED>>

TrendingKeys == <<"popular", "top_gainers", "top_losers", "recently_added">>

TrendingRequest(i) ==
    [endpoint |-> TrendingEndpoints[i], params |-> << <<"limit", "10">> >>]

StartTrending ==
    LET sent == IssueAll(cache, [i \in 1..4 |-> NewSub(TrendingRequest(i))],
                           clock)
    IN  /\ OpFree
        /\ cache' = sent.cache
        /\ op' = [IdleOp EXCEPT !.kind = "trending", !.pc = "running",
                                !.subs = sent.subs]
        /\ UNCHANGED notOpVars

\* coin => ({id: coin.id, ..., price: coin.quotes?.USD?.price || 0, ...})
TrendingItem(coin) == [id |-> coin.id, price |-> Or0(coin.price)]

\* processResult(result); the caller has made sure that map exists.
processResult(sub) ==
    IF sub.state = "fulfilled"
    THEN [k \in DOMAIN ArrayOf(sub.value) |->
             TrendingItem(ArrayOf(sub.value)[k])]
    ELSE <<>>

\* result.value.map throws
MapThrows(sub) == sub.state = "fulfilled" /\ ~IsArray(sub.value)

\* The object getTrendingCoins returns.
TrendingResult(subs) ==
    [popular |-> processResult(subs[1]),
     top_gainers |-> processResult(subs[2]),
     top_losers |-> processResult(subs[3]),
     recently_added |-> processResult(subs[4])]

\* The join of getTrendingCoins with Promise.all in place of
\* Promise.allSettled: the first rejection rejects the whole.
TrendingReturnAll ==
    /\ op.kind = "trending" /\ op.pc = "running" /\ AllSettled(op.subs)
    /\ op' = IF \E i \in 1..4 : op.subs[i].state = "rejected" \/ MapThrows(op.subs[i])
             THEN [op EXCEPT !.pc = "rejected", !.error = TypeError]
             ELSE [op EXCEPT !.pc = "returned",
                             !.result = TrendingResult(op.subs)]
    /\ UNCHANGED cache
    /\ UNCHANGED notOpVars

\* The join of getTrendingCoins: the four results are processed and
\* returned under popular, top_gainers, top_losers, recently_added; a
\* TypeError of map is rethrown by the catch.
TrendingReturn ==
    /\ op.kind = "trending" /\ op.pc = "running" /\ AllSettled(op.subs)
    /\ op' = IF \E i \in 1..4 : MapThrows(op.subs[i])
             THEN [op EXCEPT !.pc = "rejected", !.error = TypeError]
             ELSE [op EXCEPT !.pc = "returned",
                             !.result = TrendingResult(op.subs)]
    /\ UNCHANGED cache
    /\ UNCHANGED notOpVars

(***************************************************************************)
(* getCurrentPrices                                                        *)
(***************************************************************************)

\* The request getCurrentPrices makes for one id of a non-empty list.
CurrentPriceRequest(coinId) ==
    [endpoint |-> TICKER_BY_ID(coinId), params |-> << <<"quotes", "USD">> >>]

\* The request getCurrentPrices makes for an empty list.
AllTickersRequest ==
    [endpoint |-> TICKERS, params |-> << <<"quotes", "USD">> >>]

\* The requests of a getCurrentPrices call, in the order they are made.
PricesSubs(ids) ==
    IF Len(ids) = 0 THEN <<NewSub(AllTickersRequest)>>
    ELSE [k \in 1..Len(ids) |-> NewSub(CurrentPriceRequest(ids[k]))]

\* getCurrentPrices(coinIds) up to its first await: the first request.
BeginPrices(c, ids, t) ==
    LET subs == PricesSubs(ids)
        first == Issue(c, subs[1], t)
    IN  [cache |-> first.cache,
         op |-> [IdleOp EXCEPT !.kind = "prices", !.pc = "running",
                               !.ids = ids,
                               !.subs = [subs EXCEPT ![1] = first.sub]]]

StartPrices(ids) ==
    /\ OpFree
    /\ cache' = BeginPrices(cache, ids, clock).cache
    /\ op' = BeginPrices(cache, ids, clock).op
    /\ UNCHANGED notOpVars

\* The next turn of the for loop: the request of the next id.
PricesNext ==
    /\ op.kind = "prices" /\ op.pc = "running"
    /\ \E k \in DOMAIN op.subs :
          /\ op.subs[k].state = "todo"
          /\ \A j \in 1..(k - 1) : Settled(op.subs[j])
          /\ LET next == Issue(cache, op.subs[k], clock)
             IN  /\ cache' = next.cache
                 /\ op' = [op EXCEPT !.subs[k] = next.sub]
    /\ UNCHANGED notOpVars

\* prices[coinId] of one turn of the loop: the inner catch turns a failed
\* request, and the TypeError of reading quotes of null, into 0.
LoopPrice(sub) ==
    IF sub.state = "rejected" \/ ~Truthy(sub.value) THEN 0
    ELSE Or0(TickerPrice(sub.value))

\* The last turn of the loop that wrote prices[id].
LastTurn(ids, id) ==
    CHOOSE k \in DOMAIN ids :
        ids[k] = id /\ \A j \in DOMAIN ids : ids[j] = id => j <= k

\* The object the loop has built when it ends.
LoopPrices(ids, subs) ==
    [id \in {ids[k] : k \in DOMAIN ids} |-> LoopPrice(subs[LastTurn(ids, id)])]

\* The object built from the listing: prices[ticker.id] = price || 0.
ListingPrices(body) ==
    LET tickers == ArrayOf(body)
    IN  [id \in {tickers[k].id : k \in DOMAIN tickers} |->
            Or0(tickers[CHOOSE k \in DOMAIN tickers : tickers[k].id = id].price)]

\* getCurrentPrices without the inner try/catch: a failed request, or a
\* null ticker, ends the batch.
PricesOutcomeFailFast(o) ==
    IF Len(o.ids) > 0
    THEN IF \E k \in DOMAIN o.subs :
               o.subs[k].state = "rejected" \/ ~Truthy(o.subs[k].value)
         THEN [o EXCEPT !.pc = "rejected", !.error = TypeError]
         ELSE [o EXCEPT !.pc = "returned",
                        !.result = LoopPrices(o.ids, o.subs)]
    ELSE IF o.subs[1].state = "rejected" \/ ~IsArray(o.subs[1].value)
    THEN [o EXCEPT !.pc = "rejected", !.error = TypeError]
    ELSE [o EXCEPT !.pc = "returned",
                   !.result = ListingPrices(o.subs[1].value)]

\* What getCurrentPrices ends with, given its settled requests.
PricesOutcome(o) ==
    IF Len(o.ids) > 0
    THEN [o EXCEPT !.pc = "returned", !.result = LoopPrices(o.ids, o.subs)]
    ELSE IF o.subs[1].state = "rejected"
    THEN [o EXCEPT !.pc = "rejected",
                   !.error = makeAPIRequestError(o.subs[1].failure)]
    ELSE IF ~IsArray(o.subs[1].value)
    THEN [o EXCEPT !.pc = "rejected", !.error = TypeError]
    ELSE [o EXCEPT !.pc = "returned",
                   !.result = ListingPrices(o.subs[1].value)]

PricesReturn ==
    /\ op.kind = "prices" /\ op.pc = "running" /\ AllSettled(op.subs)
    /\ op' = PricesOutcome(op)
    /\ UNCHANGED cache
    /\ UNCHANGED notOpVars

(***************************************************************************)
(* getCoinOHLCV and getCoinDetails                                         *)
(***************************************************************************)

\* timeframeMap, in hundredths of a day; DAYS_MAX stands for 'max'.
timeframeMap ==
    [t \in {"1h", "4h", "12h", "1d", "3d", "7d", "14d", "30d", "90d", "180d",
            "365d", "max"} |->
        CASE t = "1h" -> 4 [] t = "4h" -> 17 [] t = "12h" -> 50
          [] t = "1d" -> 100 [] t = "3d" -> 300 [] t = "7d" -> 700
          [] t = "14d" -> 1400 [] t = "30d" -> 3000 [] t = "90d" -> 9000
          [] t = "180d" -> 18000 [] t = "365d" -> 36500
          [] t = "max" -> DAYS_MAX]

\* timeframeToDays(timeframe): timeframeMap[timeframe] || 7
timeframeToDays(timeframe) ==
    IF timeframe \in DOMAIN timeframeMap THEN timeframeMap[timeframe]
    ELSE DEFAULT_DAYS

\* Math.min(days, 365), days in hundredths
PointLimit(days) == IF days < MAX_POINTS * 100 THEN days \div 100 ELSE MAX_POINTS

\* new Date(Date.now() - d days).toISOString().split('T')[0]
DateBefore(d) == <<"today", -d>>

\* The request getCoinOHLCV makes.
OHLCVRequest(coinId, timeframe) ==
    LET days == timeframeToDays(timeframe)
    IN  IF days = DAYS_MAX
        THEN [endpoint |-> OHLCV_HISTORICAL(coinId),
              params |-> << <<"start", DateBefore(MAX_POINTS)>>,
                            <<"end", DateBefore(0)>>,
                            <<"limit", MAX_POINTS>> >>]
        ELSE IF days <= 100
        THEN [endpoint |-> OHLCV_TODAY(coinId), params |-> <<>>]
        ELSE [endpoint |-> OHLCV_HISTORICAL(coinId),
              params |-> << <<"start", DateBefore(days \div 100)>>,
                            <<"end", DateBefore(0)>>,
                            <<"limit", PointLimit(days)>> >>]

\* The timeframe tokens callers pass: known ones, 'max', an unknown one.
Timeframes == {"1d", "7d", "max", "1w"}

\* point => ({timestamp: point.time_close || ..., ...})
ChartPoint(point) == [timestamp |-> point.id, close |-> point.price]

\* What getCoinOHLCV resolves to, given its settled request: the mapped
\* points, or [] from the catch (request failed, or map is not there).
OHLCVResult(sub) ==
    IF sub.state = "rejected" \/ ~IsArray(sub.value) THEN <<>>
    ELSE [k \in DOMAIN ArrayOf(sub.value) |-> ChartPoint(ArrayOf(sub.value)[k])]

StartOHLCV(coinId, timeframe) ==
    LET sent == Issue(cache, NewSub(OHLCVRequest(coinId, timeframe)), clock)
    IN  /\ OpFree
        /\ cache' = sent.cache
        /\ op' = [IdleOp EXCEPT !.kind = "ohlcv", !.pc = "running",
                                !.coin = coinId, !.timeframe = timeframe,
                                !.subs = <<sent.sub>>]
        /\ UNCHANGED notOpVars

\* getCoinOHLCV whose catch rethrows.
OHLCVReturnThrowing ==
    /\ op.kind = "ohlcv" /\ op.pc = "running" /\ AllSettled(op.subs)
    /\ op' = IF op.subs[1].state = "rejected" \/ ~IsArray(op.subs[1].value)
             THEN [op EXCEPT !.pc = "rejected", !.error = TypeError]
             ELSE [op EXCEPT !.pc = "returned",
                             !.result = OHLCVResult(op.subs[1])]
    /\ UNCHANGED cache
    /\ UNCHANGED notOpVars

OHLCVReturn ==
    /\ op.kind = "ohlcv" /\ op.pc = "running" /\ AllSettled(op.subs)
    /\ op' = [op EXCEPT !.pc = "returned", !.result = OHLCVResult(op.subs[1])]
    /\ UNCHANGED cache
    /\ UNCHANGED notOpVars

\* The three calls of getCoinDetails: coin info, ticker, getCoinOHLCV.
DetailsSubs(coinId, timeframe) ==
    <<NewSub(DetailsInfoRequest(coinId)), NewSub(DetailsTickerRequest(coinId)),
      NewSub(OHLCVRequest(coinId, timeframe))>>

StartDetails(coinId, timeframe) ==
    LET sent == IssueAll(cache, DetailsSubs(coinId, timeframe), clock)
    IN  /\ OpFree
        /\ cache' = sent.cache
        /\ op' = [IdleOp EXCEPT !.kind = "details", !.pc = "running",
                                !.coin = coinId, !.timeframe = timeframe,
                                !.subs = sent.subs]
        /\ UNCHANGED notOpVars

\* new Error(`Coin ${coinId} not found`)
CoinNotFound(coinId) == <<"Coin ", coinId, " not found">>

\* additionalMetrics: filled from the ticker when there is one.
TickerMetrics(sub) ==
    IF sub.state = "fulfilled" /\ Truthy(sub.value)
    THEN [price |-> Or0(TickerPrice(sub.value))]
    ELSE <<>>

\* getCoinDetails that takes every one of its three calls as mandatory.
DetailsOutcomeStrict(o) ==
    IF \E i \in 1..3 : o.subs[i].state = "rejected"
    THEN [o EXCEPT !.pc = "rejected", !.error = CoinNotFound(o.coin)]
    ELSE IF ~Truthy(o.subs[1].value)
    THEN [o EXCEPT !.pc = "rejected", !.error = TypeError]
    ELSE [o EXCEPT !.pc = "returned",
                   !.result = [id |-> o.coin, info |-> o.subs[1].value,
                               metrics |-> TickerMetrics(o.subs[2]),
                               chart_data |-> OHLCVResult(o.subs[3])]]

\* What getCoinDetails ends with, given its settled calls.
DetailsOutcome(o) ==
    IF o.subs[1].state = "rejected"
    THEN [o EXCEPT !.pc = "rejected", !.error = CoinNotFound(o.coin)]
    ELSE IF ~Truthy(o.subs[1].value)
    THEN [o EXCEPT !.pc = "rejected", !.error = TypeError]
    ELSE [o EXCEPT !.pc = "returned",
                   !.result = [id |-> o.coin, info |-> o.subs[1].value,
                               metrics |-> TickerMetrics(o.subs[2]),
                               chart_data |-> OHLCVResult(o.subs[3])]]

DetailsReturn ==
    /\ op.kind = "details" /\ op.pc = "running" /\ AllSettled(op.subs)
    /\ op' = DetailsOutcome(op)
    /\ UNCHANGED cache
    /\ UNCHANGED notOpVars

(***************************************************************************)
(* Portfolio (routes.js with db.js: table portfolio; the /dashboard router *)
(* with the Database class: tables coins and user_coins).                  *)
(*                                                                         *)
(* A request body field is a string, written as the sequence of its        *)
(* characters; <<>> is the field that is absent or empty.  A JavaScript    *)
(* number is a record: NaN, or an integer.  userId is req.user.id as the   *)
(* gatekeeper set it.                                                      *)
(***************************************************************************)
Holders == 1..NHolders

NaN == [nan |-> TRUE, v |-> 0]

Num(n) == [nan |-> FALSE, v |-> n]

isNaN(x) == x.nan

\* x <= 0, which is false when x is NaN
LessEq0(x) == ~x.nan /\ x.v <= 0

\* !field
Not(field) == field = <<>>

DigitValue ==
    ("0" :> 0) @@ ("1" :> 1) @@ ("2" :> 2) @@ ("3" :> 3) @@ ("4" :> 4) @@
    ("5" :> 5) @@ ("6" :> 6) @@ ("7" :> 7) @@ ("8" :> 8) @@ ("9" :> 9)

RECURSIVE DigitPrefix(_)
\* The number of digits the string starts with.
DigitPrefix(s) ==
    IF s = <<>> \/ s[1] \notin DOMAIN DigitValue THEN 0
    ELSE 1 + DigitPrefix(Tail(s))

RECURSIVE DecimalValue(_, _)
\* The number that the first n characters, all digits, write.
DecimalValue(s, n) ==
    IF n = 0 THEN 0 ELSE 10 * DecimalValue(s, n - 1) + DigitValue[s[n]]

\* parseFloat(string), for strings without blanks, '+', '.' and exponent:
\* the longest prefix that is a number, NaN if there is none.
parseFloat(s) ==
    LET negative == s # <<>> /\ s[1] = "-"
        digits == IF negative THEN Tail(s) ELSE s
        n == DigitPrefix(digits)
    IN  IF n = 0 THEN NaN
        ELSE Num(IF negative THEN -DecimalValue(digits, n)
                 ELSE DecimalValue(digits, n))

AmountInputs ==
    {<<>>, <<"a", "b", "c">>, <<"1", "a", "b", "c">>, <<"0">>, <<"-", "1">>,
     <<"1">>}

PriceInputs == {<<>>, <<"a", "b", "c">>, <<"1">>}

\* What the provider answers to the request of one coin: no 2xx response,
\* or a JSON body.
Answers ==
    {[ok |-> FALSE, body |-> 0]} \cup {[ok |-> TRUE, body |-> b] : b \in Bodies}

\* getCoinCurrentPrice(coinId) throws: makeAPIRequest threw, or the body is
\* null and ticker.quotes throws.
PriceUnavailable(answer) == ~answer.ok \/ ~Truthy(answer.body)

\* new Error(`Coin ${coinId} not found or price unavailable`)
PriceError(coinId) ==
    <<"Coin ", ToString(coinId), " ", "not found", " or price unavailable">>

\* error.message.includes(piece)
MessageIncludes(message, piece) ==
    \E i \in DOMAIN message : message[i] = piece

\* A catch that answers every error alike.
AddErrorStatusPlain(message) == 500

\* The catch of POST /api/portfolio/add: 404 if the message includes
\* 'not found', 500 otherwise.
AddErrorStatus(message) ==
    IF MessageIncludes(message, "not found") THEN 404 ELSE 500

\* getCoinCurrentPrice(coinId): ticker.quotes?.USD?.price || 0
getCoinCurrentPrice(answer) == Or0(TickerPrice(answer.body))

WithKey(rows, userId, coinId) ==
    {row \in rows : row.user_id = userId /\ row.coin_id = coinId}

\* addToPortfolio with ON DUPLICATE KEY UPDATE amount = VALUES(amount)
addToPortfolioReplacing(rows, userId, coinData) ==
    LET dup == {row \in rows :
                   row.user_id = userId /\ row.coin_id = coinData.coin_id}
    IN  IF dup = {}
        THEN rows \cup {[user_id |-> userId, coin_id |-> coinData.coin_id,
                         amount |-> coinData.amount,
                         purchase_price |-> coinData.purchase_price,
                         current_price |-> coinData.current_price,
                         current_value |-> coinData.current_value]}
        ELSE (rows \ dup) \cup
             {[row EXCEPT !.amount = coinData.amount,
                          !.purchase_price = coinData.purchase_price] :
                 row \in dup}

\* db.addToPortfolio(userId, coinData): INSERT INTO portfolio ... ON
\* DUPLICATE KEY UPDATE amount = amount + VALUES(amount), purchase_price =
\* VALUES(purchase_price), the key being UNIQUE (user_id, coin_id).
addToPortfolio(rows, userId, coinData) ==
    LET dup == WithKey(rows, userId, coinData.coin_id)
    IN  IF dup = {}
        THEN rows \cup {[user_id |-> userId, coin_id |-> coinData.coin_id,
                         amount |-> coinData.amount,
                         purchase_price |-> coinData.purchase_price,
                         current_price |-> coinData.current_price,
                         current_value |-> coinData.current_value]}
        ELSE (rows \ dup) \cup
             {[row EXCEPT !.amount = @ + coinData.amount,
                          !.purchase_price = coinData.purchase_price] :
                 row \in dup}

\* A column that holds NULL.
NULL == -1

\* Database.addUserCoin(userId, coinId, balance, purchasePrice): INSERT INTO
\* user_coins ... ON DUPLICATE KEY UPDATE balance = balance +
\* VALUES(balance), the key being UNIQUE (user_id, coin_id).
addUserCoin(rows, userId, coinId, balance, purchasePrice) ==
    LET dup == WithKey(rows, userId, coinId)
    IN  IF dup = {}
        THEN rows \cup {[user_id |-> userId, coin_id |-> coinId,
                         balance |-> balance,
                         purchase_price |-> purchasePrice]}
        ELSE (rows \ dup) \cup
             {[row EXCEPT !.balance = @ + balance] : row \in dup}

\* Database.getOrCreateCoin(coinId, ...)
getOrCreateCoin(rows, coinId) == rows \cup {coinId}

NoReply == [route |-> "none", status |-> 0]

InitFolio ==
    /\ portfolio = {}
    /\ user_coins = {}
    /\ coins = {}
    /\ added = [pair \in Holders \X Ids |-> 0]
    /\ reply = NoReply

\* The response to an add-coin request, with the request's fields and
\* whether the handler got as far as the provider and as far as a write.
AddReply(amount, price, status, called, wrote) ==
    [route |-> "add", amount |-> amount, purchase_price |-> price,
     status |-> status, called |-> called, wrote |-> wrote]

\* POST /api/portfolio/add
AddToPortfolio(userId, coinId, amount, price, answer) ==
    LET amountNum == parseFloat(amount)
        purchasePriceNum == parseFloat(price)
        currentPrice == getCoinCurrentPrice(answer)
        coinData == [coin_id |-> coinId, amount |-> amountNum.v,
                     purchase_price |-> purchasePriceNum.v,
                     current_price |-> currentPrice,
                     current_value |-> amountNum.v * currentPrice]
    IN  /\ variant = "cookie"
        /\ IF Not(amount) \/ Not(price)
           THEN /\ reply' = AddReply(amount, price, 400, FALSE, FALSE)
                /\ UNCHANGED <<portfolio, added>>
           ELSE IF \/ isNaN(amountNum) \/ isNaN(purchasePriceNum)
                   \/ LessEq0(amountNum) \/ LessEq0(purchasePriceNum)
           THEN /\ reply' = AddReply(amount, price, 400, FALSE, FALSE)
                /\ UNCHANGED <<portfolio, added>>
           ELSE IF PriceUnavailable(answer)
           THEN /\ reply' = AddReply(amount, price,
                                   AddErrorStatus(PriceError(coinId)),
                                   TRUE, FALSE)
                /\ UNCHANGED <<portfolio, added>>
           ELSE /\ added[<<userId, coinId>>] + amountNum.v <= MaxHolding
                /\ portfolio' = addToPortfolio(portfolio, userId, coinData)
                /\ added' = [added EXCEPT ![<<userId, coinId>>] =
                                @ + amountNum.v]
                /\ reply' = AddReply(amount, price, 200, TRUE, TRUE)
        /\ UNCHANGED <<user_coins, coins>>
        /\ UNCHANGED notFolioVars

\* POST /dashboard/add-coin
AddCoin(userId, coinId, amount, price, answer) ==
    LET balance == parseFloat(amount)
        purchasePrice == IF Not(price) THEN Num(NULL) ELSE parseFloat(price)
    IN  /\ variant = "bearer"
        /\ IF Not(amount) \/ LessEq0(parseFloat(amount))
           THEN /\ reply' = AddReply(amount, price, 400, FALSE, FALSE)
                /\ UNCHANGED <<user_coins, coins, added>>
           ELSE IF ~answer.ok
           THEN /\ reply' = AddReply(amount, price, 404, TRUE, FALSE)
                /\ UNCHANGED <<user_coins, coins, added>>
           ELSE IF ~Truthy(answer.body)
           THEN \* coinData is null: coinData.symbol throws
                /\ reply' = AddReply(amount, price, 500, TRUE, FALSE)
                /\ UNCHANGED <<user_coins, coins, added>>
           ELSE IF isNaN(balance) \/ isNaN(purchasePrice)
           THEN \* the INSERT is sent with the word NaN in it and fails
                /\ coins' = getOrCreateCoin(coins, coinId)
                /\ reply' = AddReply(amount, price, 500, TRUE, TRUE)
                /\ UNCHANGED <<user_coins, added>>
           ELSE /\ added[<<userId, coinId>>] + balance.v <= MaxHolding
                /\ coins' = getOrCreateCoin(coins, coinId)
                /\ user_coins' = addUserCoin(user_coins, userId, coinId,
                                             balance.v, purchasePrice.v)
                /\ added' = [added EXCEPT ![<<userId, coinId>>] =
                                @ + balance.v]
                /\ reply' = AddReply(amount, price, 200, TRUE, TRUE)
        /\ UNCHANGED portfolio
        /\ UNCHANGED notFolioVars

\* The prices getCurrentPrices(coinIds) returns: a number per id, 0 for an
\* id whose request failed.
PriceMaps == [Ids -> 0..MaxPrice]

\* getUserPortfolio without its WHERE user_id = ?
getUserPortfolioOfAll(rows, userId) == rows

\* db.getUserPortfolio(userId)
getUserPortfolio(rows, userId) == {row \in rows : row.user_id = userId}

\* a / b rounded to the nearest integer, halves away from zero (b > 0)
RoundDiv(a, b) ==
    IF a >= 0 THEN (2 * a + b) \div (2 * b)
    ELSE -((2 * (-a) + b) \div (2 * b))

\* (x).toFixed(2) of x = a / b, in hundredths
toFixed2(a, b) == RoundDiv(100 * a, b)

\* currentPrices[item.coin_id], without the stored price to fall back on
currentPriceFresh(item, currentPrices) == currentPrices[item.coin_id]

\* item.current_price || currentPrices[item.coin_id] || 0
currentPriceStoredFirst(item, currentPrices) ==
    IF Truthy(item.current_price) THEN item.current_price
    ELSE IF Truthy(currentPrices[item.coin_id])
    THEN currentPrices[item.coin_id]
    ELSE 0

\* currentPrices[item.coin_id] || item.current_price || 0
currentPriceOf(item, currentPrices) ==
    IF Truthy(currentPrices[item.coin_id]) THEN currentPrices[item.coin_id]
    ELSE IF Truthy(item.current_price) THEN item.current_price
    ELSE 0

\* The element of the returned portfolio for one row; the percentage is in
\* hundredths of a percent.
PortfolioItem(item, currentPrices) ==
    LET currentPrice == currentPriceOf(item, currentPrices)
    IN  [coin_id |-> item.coin_id, amount |-> item.amount,
         purchase_price |-> item.purchase_price,
         current_price |-> currentPrice,
         current_value |-> item.amount * currentPrice,
         gain_loss_percentage |->
            IF item.purchase_price > 0
            THEN toFixed2((currentPrice - item.purchase_price) * 100,
                          item.purchase_price)
            ELSE 0]

RECURSIVE TotalValue(_)
\* portfolio.reduce((sum, item) => sum + (item.current_value || 0), 0)
TotalValue(items) ==
    IF items = {} THEN 0
    ELSE LET item == CHOOSE x \in items : TRUE
         IN  Or0(item.current_value) + TotalValue(items \ {item})

\* db.updatePortfolioPrices(userId, priceUpdates), priceUpdates holding the
\* current_price of every returned item
updatePortfolioPrices(rows, userId, items) ==
    {IF row.user_id = userId
     THEN LET update == CHOOSE x \in items : x.coin_id = row.coin_id
          IN  [row EXCEPT !.current_price = update.current_price,
                          !.current_value = row.amount * update.current_price]
     ELSE row : row \in rows}

\* GET /api/portfolio
GetPortfolio(userId, currentPrices) ==
    LET rows == getUserPortfolio(portfolio, userId)
        items == {PortfolioItem(row, currentPrices) : row \in rows}
    IN  /\ variant = "cookie"
        /\ portfolio' = updatePortfolioPrices(portfolio, userId, items)
        /\ reply' = [route |-> "read", status |-> 200, user |-> userId,
                     prices |-> currentPrices, portfolio |-> items,
                     total_value |-> TotalValue(items)]
        /\ UNCHANGED <<user_coins, coins, added>>
        /\ UNCHANGED notFolioVars

(***************************************************************************)
(* GET /coins/trending of the /dashboard router.  A coin of the provider's *)
(* list is its position in the list and its rank.                          *)
(***************************************************************************)
\* The lists the provider answers GET /coins with: the ranks 1..n, in an
\* order that starts at any of them.
CoinLists ==
    {[i \in 1..n |-> [id |-> i, rank |-> ((i + k - 1) % n) + 1]] :
        n \in 1..MaxCoins, k \in 0..MaxCoins}
       \cup {<<>>}

\* (a, b) => b.rank - a.rank
compareRank(a, b) == b.rank - a.rank

RECURSIVE InsertCoin(_, _)
\* x put behind the coins that the comparator does not place after it
InsertCoin(x, sorted) ==
    IF sorted = <<>> THEN <<x>>
    ELSE IF compareRank(Head(sorted), x) <= 0
    THEN <<Head(sorted)>> \o InsertCoin(x, Tail(sorted))
    ELSE <<x>> \o sorted

RECURSIVE SortCoins(_)
\* allCoins.sort((a, b) => b.rank - a.rank)
SortCoins(s) ==
    IF s = <<>> THEN <<>>
    ELSE InsertCoin(s[Len(s)], SortCoins(SubSeq(s, 1, Len(s) - 1)))

\* .slice(0, n)
Slice(s, n) == SubSeq(s, 1, IF Len(s) < n THEN Len(s) ELSE n)

\* allCoins.sort(...).slice(0, 20).map(coin => ({id, ..., rank, ...}))
trendingCoins(allCoins) == Slice(SortCoins(allCoins), TRENDING_LIMIT)

NoTrend == [status |-> 0, allCoins |-> <<>>, coins |-> <<>>]

InitTrend == trend = NoTrend

\* GET /coins/trending: both provider calls, then the answer; 500 if
\* either call fails.
CoinsTrending(allCoins, ok) ==
    /\ variant = "bearer"
    /\ trend' = IF ok
                THEN [status |-> 200, allCoins |-> allCoins,
                      coins |-> trendingCoins(allCoins)]
                ELSE [status |-> 500, allCoins |-> allCoins, coins |-> <<>>]
    /\ UNCHANGED <<search, display>>
    /\ UNCHANGED notPageVars

(***************************************************************************)
(* The page (app.js): the debounced searches and the portfolio total.      *)
(* Time is in milliseconds.                                                *)
(***************************************************************************)
Views == {"modal", "main"}

Queries == {"b", "bt", "btc"}

\* The closure whose variable timeout a call of the debounced function
\* uses: searchCryptos is made once, when the script loads; the main search
\* view makes a new debounced function in every input event.
SEARCH_CRYPTOS == 0

ClosureOf(view, n) == IF view = "modal" THEN SEARCH_CRYPTOS ELSE n

\* executedFunction(...args): clearTimeout(timeout);
\* timeout = setTimeout(later, wait)
executedFunction(timers, closure, view, query, t, wait) ==
    {timer \in timers : timer.closure # closure}
       \cup {[closure |-> closure, view |-> view, query |-> query,
              due |-> t + wait]}

\* The debounced function: !query || query.length < 2 sends nothing.
SendsRequest(query) == Len(query) >= MIN_QUERY

InitSearch ==
    search = [ms |-> 0, timers |-> {}, requests |-> <<>>, events |-> <<>>]

\* An input event of the search field of a view (cryptoSearchInput, or
\* main-search-input), with the field's value.
SearchInput(view, query) ==
    LET n == Len(search.events) + 1
    IN  /\ n <= MaxEvents
        /\ search.events # <<>> => search.events[1].view = view
        /\ search' =
              [search EXCEPT
                 !.timers = executedFunction(@, ClosureOf(view, n), view,
                                             query, search.ms, WAIT),
                 !.events = Append(@, [view |-> view, query |-> query,
                                       at |-> search.ms])]
        /\ UNCHANGED <<trend, display>>
        /\ UNCHANGED notPageVars

\* later(): clearTimeout(timeout); func(...args), which fetches
\* /api/search?q=... unless the query is too short.
TimerFires(timer) ==
    /\ timer \in search.timers
    /\ timer.due <= search.ms
    /\ search' =
          [search EXCEPT
             !.timers = @ \ {timer},
             !.requests = IF SendsRequest(timer.query)
                          THEN Append(@, [view |-> timer.view,
                                          query |-> timer.query,
                                          at |-> search.ms])
                          ELSE @]
    /\ UNCHANGED <<trend, display>>
    /\ UNCHANGED notPageVars

\* Time passes; a timer that is due runs before time goes on.
AdvanceMs ==
    /\ search.ms + StepMs <= MaxMs
    /\ \A timer \in search.timers : timer.due > search.ms
    /\ search' = [search EXCEPT !.ms = @ + StepMs]
    /\ UNCHANGED <<trend, display>>
    /\ UNCHANGED notPageVars

\* formatCurrency(amount): Intl.NumberFormat('en-US', {style: 'currency',
\* currency: 'USD', 2 fraction digits}) of a whole number of dollars.
formatCurrency(amount) == <<"$", amount, ".00">>

MASK == <<"******">>

\* getAttribute of an attribute that is not set
null == <<>>

\* portfolioTotal as index.html has it, AppState.balanceVisible as
\* localStorage has it; total is the total_value of the last load.
InitDisplay ==
    display = [balanceVisible |-> TRUE, textContent |-> formatCurrency(0),
               dataRealValue |-> null, total |-> 0, loads |-> 0]

\* updateBalanceVisibility()
updateBalanceVisibility(d) ==
    IF d.balanceVisible
    THEN [d EXCEPT !.textContent =
              IF d.dataRealValue # null THEN d.dataRealValue
              ELSE formatCurrency(0)]
    ELSE [d EXCEPT !.dataRealValue = d.textContent, !.textContent = MASK]

\* updatePortfolioDisplay(data) with data.summary.total_value = totalValue
UpdatePortfolioDisplay(totalValue) ==
    /\ display.loads < MaxLoads
    /\ display' = updateBalanceVisibility(
                     [display EXCEPT !.textContent = formatCurrency(totalValue),
                                     !.total = totalValue,
                                     !.loads = @ + 1])
    /\ UNCHANGED <<trend, search>>
    /\ UNCHANGED notPageVars

\* toggleBalanceVisibility()
ToggleBalanceVisibility ==
    /\ display' = updateBalanceVisibility(
                     [display EXCEPT !.balanceVisible = ~@])
    /\ UNCHANGED <<trend, search>>
    /\ UNCHANGED notPageVars

Init ==
    /\ InitAuth /\ InitCache /\ InitOp /\ InitAccounts /\ InitFolio
    /\ InitTrend /\ InitSearch /\ InitDisplay

NextAuth ==
    \/ \E u \in UserIds, salt \in Salts : Register(u, salt)
    \/ \E u \in UserIds, salt \in Salts : Login(u, salt)
    \/ \E c \in CookieJars, route \in Routes : CookieRequest(c, route)
    \/ \E salt \in Salts : CookieHash(salt)
    \/ CookieSessionLookup
    \/ CookieLookupThrows
    \/ CookieLogout
    \/ \E u \in UserIds : Signup(u)
    \/ \E u \in UserIds, rememberMe \in BOOLEAN : BearerLogin(u, rememberMe)
    \/ \E h \in BearerHeaders, route \in Routes : BearerRequest(h, route)
    \/ BearerUserLookup
    \/ BearerLookupThrows
    \/ BearerLogout
    \/ ProtectedRoute
    \/ \E d \in TickSteps : Tick(d)

SpecAuth == Init /\ [][NextAuth]_vars

NextSessions ==
    \/ NextAuth
    \/ CleanupExpiredSessions

SpecSessions == Init /\ [][NextSessions]_vars

NextCache ==
    \/ \E r \in CallIds, kind \in Ops, coinId \in Coins :
          StartCall(r, kind, coinId)
    \/ \E r \in CallIds, data \in Bodies : FetchOk(r, data)
    \/ \E r \in CallIds, failure \in Failures : FetchFails(r, failure)
    \/ \E d \in ClockSteps : AdvanceClock(d)

\* The gateway does not depend on the deployed variant.
InitGateway == Init /\ variant = "cookie"

SpecCache == InitGateway /\ [][NextCache]_vars

NextTrending ==
    \/ StartTrending
    \/ \E i \in 1..4, data \in Bodies : SubFetchOk(i, data)
    \/ \E i \in 1..4, failure \in Failures : SubFetchFails(i, failure)
    \/ TrendingReturn

SpecTrending == InitGateway /\ [][NextTrending]_vars

NextPrices ==
    \/ \E ids \in IdLists : StartPrices(ids)
    \/ PricesNext
    \/ \E i \in 1..MaxIds, data \in Bodies : SubFetchOk(i, data)
    \/ \E i \in 1..MaxIds, failure \in Failures : SubFetchFails(i, failure)
    \/ PricesReturn

SpecPrices == InitGateway /\ [][NextPrices]_vars

NextDetails ==
    \/ \E coinId \in Coins, timeframe \in Timeframes :
          StartDetails(coinId, timeframe)
    \/ \E i \in 1..3, data \in Bodies : SubFetchOk(i, data)
    \/ \E i \in 1..3, failure \in Failures : SubFetchFails(i, failure)
    \/ DetailsReturn

SpecDetails == InitGateway /\ [][NextDetails]_vars

NextOHLCV ==
    \/ \E coinId \in Coins, timeframe \in Timeframes :
          StartOHLCV(coinId, timeframe)
    \/ \E data \in Bodies : SubFetchOk(1, data)
    \/ \E failure \in Failures : SubFetchFails(1, failure)
    \/ OHLCVReturn

SpecOHLCV == InitGateway /\ [][NextOHLCV]_vars

NextAccounts ==
    \/ \E s \in SignupIds, email \in Emails, password \in NewPasswords :
          RegisterRequest(s, email, password)
    \/ \E s \in SignupIds, salt \in Salts : RegisterInsert(s, salt)
    \/ \E email \in Emails, password \in Passwords, salt \in Salts :
          LoginAttempt(email, password, salt)
    \/ \E s \in SignupIds, email \in Emails, password \in NewPasswords :
          SignupRequest(s, email, password)
    \/ \E s \in SignupIds, salt \in Salts, strict \in BOOLEAN :
          SignupInsert(s, salt, strict)
    \/ \E email \in Emails, password \in Passwords, rememberMe \in BOOLEAN,
          strict \in BOOLEAN :
          BearerLoginAttempt(email, password, rememberMe, strict)

SpecAccounts == Init /\ [][NextAccounts]_vars

NextFolio ==
    \/ \E userId \in Holders, coinId \in Ids, amount \in AmountInputs,
          price \in PriceInputs, answer \in Answers :
          AddToPortfolio(userId, coinId, amount, price, answer)
    \/ \E userId \in Holders, coinId \in Ids, amount \in AmountInputs,
          price \in PriceInputs, answer \in Answers :
          AddCoin(userId, coinId, amount, price, answer)

SpecFolio == Init /\ [][NextFolio]_vars

\* The amounts and purchase prices of the holdings that are read.
HeldAmounts == {<<"1">>, <<"2">>}

PaidPrices == {<<"1">>, <<"3">>}

NextRead ==
    \/ \E coinId \in Ids, amount \in HeldAmounts, price \in PaidPrices,
          answer \in Answers :
          AddToPortfolio(1, coinId, amount, price, answer)
    \/ \E currentPrices \in PriceMaps : GetPortfolio(1, currentPrices)

SpecRead == InitGateway /\ [][NextRead]_vars

\* The prices of the reads of several users' holdings.
ScopePrices == [Ids -> {0, 2}]

\* The provider's answers to the adds of several users: no 2xx response,
\* or the largest body.
ScopeAnswers == {answer \in Answers : answer.body \in {0, NBodies}}

NextScope ==
    \/ \E userId \in Holders, coinId \in Ids, answer \in ScopeAnswers :
          AddToPortfolio(userId, coinId, <<"1">>, <<"1">>, answer)
    \/ \E userId \in Holders, currentPrices \in ScopePrices :
          GetPortfolio(userId, currentPrices)

SpecScope == InitGateway /\ [][NextScope]_vars

InitBearer == Init /\ variant = "bearer"

NextTrend ==
    \E allCoins \in CoinLists, ok \in BOOLEAN : CoinsTrending(allCoins, ok)

SpecTrend == InitBearer /\ [][NextTrend]_vars

NextSearch ==
    \/ \E view \in Views, query \in Queries : SearchInput(view, query)
    \/ \E timer \in search.timers : TimerFires(timer)
    \/ AdvanceMs

SpecSearch == InitGateway /\ [][NextSearch]_vars

NextDisplay ==
    \/ \E totalValue \in 0..MaxTotal : UpdatePortfolioDisplay(totalValue)
    \/ ToggleBalanceVisibility

SpecDisplay == InitGateway /\ [][NextDisplay]_vars

(***************************************************************************)
(* Properties of the gatekeeper.                                           *)
(***************************************************************************)

\* The request has been through the synchronous part of the middleware.
Seen(r) == r.pc # "idle"

\* The token word the transport carries, if any, read off the wire.
Carries(r) ==
    IF r.variant = "cookie" THEN r.carried # <<>> ELSE Len(r.carried) >= 2

Carried(r) == IF r.variant = "cookie" THEN r.carried[1] ELSE r.carried[2]

\* C1: round trip. A credential that login/registration issued and that is
\* presented while it is still the day of issue is accepted by the
\* gatekeeper (no 401/403; storage failures aside), and the identity put on
\* the request has the subject the credential was issued for.
C1_RoundTrip ==
    (/\ req.pc \in {"handler", "closed"}
     /\ req.token \in issued
     /\ now = req.token.iat
     /\ req.status # 500)
        => req.nextCalls = 1 /\ req.user = req.token.sub

\* C2: once the logout of a credential has been answered, the gatekeeper
\* never again accepts that credential, in either variant.
C2_RevokedIsRejected ==
    req.pc = "handler" => req.token \notin loggedOut

\* C3: the gatekeeper calls next() only for a credential whose signature and
\* expiry verified and for which user_sessions holds an unexpired row with a
\* hash of that raw credential.
C3_AcceptNeedsSessionRow ==
    req.nextCalls > 0 =>
        /\ JwtVerify(req.token, req.at)
        /\ \E row \in sessions :
              /\ \E salt \in Salts : row.token_hash = hashToken(req.token, salt)
              /\ row.expires_at > req.at

\* C4: any two credentials the gatekeeper turned down (garbage, expired,
\* signature-valid without a session row) got the same status and body.
C4_RejectionsAlike ==
    \A a, b \in rejections : a.status = b.status /\ a.body = b.body

\* C5: in both variants a protected request that carries no credential is
\* answered 401, one that carries a credential whose signature or expiry
\* fails is answered 403, and in neither case does the route handler run.
C5_MissingIs401InvalidIs403 ==
    Seen(req) =>
        /\ ~Carries(req) =>
              req.status = 401 /\ req.nextCalls = 0 /\ ~req.handlerRan
        /\ (Carries(req) /\ ~JwtVerify(Carried(req), req.at)) =>
              req.status = 403 /\ req.nextCalls = 0 /\ ~req.handlerRan

\* A request without credential was answered, and an expired credential was
\* answered, by the middleware.
C5_Witness ==
    /\ req.pc = "closed" /\ req.status = 403
    /\ Carries(req) /\ Carried(req).kind = "jwt"
    /\ ~(req.at < Carried(req).exp)

\* C6: a request that entered the gatekeeper and is no longer being worked
\* on got exactly one outcome from it: one response, or one call of next();
\* a failing storage lookup does not leave it unanswered.
C6_GateAlwaysAnswers ==
    req.pc \in {"handler", "closed", "abandoned"} =>
        req.nextCalls + (IF req.handlerRan THEN 0 ELSE req.responses) = 1

(***************************************************************************)
(* Properties of the gateway cache.                                        *)
(***************************************************************************)

\* When the call began, a request for the same url had completed and stored
\* its response.
HadPrior(c) == c.prior.at > 0

\* C7: a request that starts less than TTL after a response was stored under
\* its url makes no network call and returns the stored data.
C7_FreshEntryIsServed ==
    \A r \in CallIds :
        (/\ calls[r].pc # "idle"
         /\ HadPrior(calls[r])
         /\ calls[r].startedAt - calls[r].prior.at < TTL)
            => /\ calls[r].pc = "done"
               /\ calls[r].fetches = 0
               /\ calls[r].result = calls[r].prior.data

\* C8: a request that starts TTL or more after the response under its url
\* was stored finds the entry removed by its own lookup (what the cache
\* holds afterwards was stored no earlier than the lookup), makes exactly
\* one network call and is not served from the cache.
C8_StaleEntryIsEvicted ==
    \A r \in CallIds :
        (/\ calls[r].pc # "idle"
         /\ HadPrior(calls[r])
         /\ calls[r].startedAt - calls[r].prior.at >= TTL)
            => /\ calls[r].url \in DOMAIN cache.timestamps =>
                    cache.timestamps[calls[r].url] >= calls[r].startedAt
               /\ calls[r].url \in DOMAIN cache.data =>
                    calls[r].url \in DOMAIN cache.timestamps
               /\ calls[r].pc = "fetching" => calls[r].fetches = 0
               /\ calls[r].pc \in {"done", "failed"} => calls[r].fetches = 1

\* Two calls for one url that both began before anything was stored under
\* it, so that both missed and were in flight together, and that both
\* fetched and stored.
Raced(r1, r2) ==
    /\ r1 # r2
    /\ calls[r1].url = calls[r2].url
    /\ \A r \in {r1, r2} :
          /\ calls[r].pc = "done"
          /\ calls[r].fetches = 1
          /\ ~HadPrior(calls[r])

Pending(url) == \E r \in CallIds : calls[r].pc = "fetching" /\ calls[r].url = url

\* C9: the cache never holds a value without a timestamp or a timestamp
\* without a value; and once calls that raced for a url have all completed,
\* the cache holds for that url the response stored last with the time of
\* that store (for as long as the entry is within its TTL).
C9_RaceIsLastWriterWins ==
    /\ DOMAIN cache.data = DOMAIN cache.timestamps
    /\ \A r1, r2 \in CallIds :
          (/\ Raced(r1, r2)
           /\ ~Pending(calls[r1].url)
           /\ clock - lastStored[calls[r1].url].at < TTL)
              => /\ calls[r1].url \in DOMAIN cache.data
                 /\ cache.data[calls[r1].url] = lastStored[calls[r1].url].data
                 /\ cache.timestamps[calls[r1].url]
                        = lastStored[calls[r1].url].at

\* Two calls raced, stored different responses, and both are complete.
C9_Witness ==
    \E r1, r2 \in CallIds :
        /\ Raced(r1, r2)
        /\ calls[r1].result # calls[r2].result
        /\ ~Pending(calls[r1].url)
        /\ cache.data[calls[r1].url] = calls[r2].result

\* A getCoinCurrentPrice call and the ticker call of getCoinDetails for one
\* coin.
TickerPair(r1, r2) ==
    /\ calls[r1].pc # "idle" /\ calls[r1].op = "price"
    /\ calls[r2].pc # "idle" /\ calls[r2].op = "detailsTicker"
    /\ calls[r1].coin = calls[r2].coin

\* C10 as claimed: for one coin, the ticker of getCoinCurrentPrice and the
\* ticker of getCoinDetails are cached under different keys.
C10_DistinctTickerKeys ==
    \A r1, r2 \in CallIds :
        TickerPair(r1, r2) => calls[r1].url # calls[r2].url

\* C10 as amended: for one coin, the ticker of getCoinCurrentPrice and the
\* ticker of getCoinDetails are cached under the same key, the url
\* BASE_URL/tickers/{id}?quotes=USD.
C10_SharedTickerKey ==
    \A r1, r2 \in CallIds :
        TickerPair(r1, r2) =>
            /\ calls[r1].url = calls[r2].url
            /\ calls[r1].url
                 = <<BASE_URL, "/tickers/", calls[r1].coin, "?", "quotes",
                     "=", "USD">>

\* getCoinCurrentPrice fetched and stored a ticker, and the ticker call of
\* getCoinDetails for that coin was then served that entry.
C10_Witness ==
    \E r1, r2 \in CallIds :
        /\ TickerPair(r1, r2)
        /\ calls[r1].pc = "done" /\ calls[r1].fetches = 1
        /\ calls[r2].pc = "done" /\ calls[r2].fetches = 0
        /\ calls[r2].startedAt >= calls[r1].startedAt
        /\ calls[r2].result = calls[r1].result

(***************************************************************************)
(* Properties of the gateway's failure handling.                           *)
(***************************************************************************)

Includes(msg, piece) == \E i \in DOMAIN msg : msg[i] = piece

\* What was last stored under a url, if anything.
StoredUnder(url) == IF url \in DOMAIN lastStored THEN lastStored[url] ELSE NoPrior

\* C11: a call whose HTTP request failed (fetch rejected, or a non-2xx
\* answer) made one network call and threw an error whose message carries
\* the upstream status and status text, or the network error's reason; it
\* stored nothing under its url (as long as no other call has stored there
\* since it began, the cache holds for the url what it held before, or
\* nothing); and a later identical request that began with the same cache
\* content for the url is not served from the cache.
C11_FailureIsReportedNotCached ==
    \A r \in CallIds :
        calls[r].pc = "failed" =>
            /\ calls[r].fetches = 1
            /\ Includes(calls[r].error, calls[r].failure.text)
            /\ calls[r].failure.kind = "http" =>
                  Includes(calls[r].error, calls[r].failure.status)
            /\ StoredUnder(calls[r].url) = calls[r].prior =>
                  \/ calls[r].url \notin DOMAIN cache.data
                  \/ /\ cache.data[calls[r].url] = calls[r].prior.data
                     /\ cache.timestamps[calls[r].url] = calls[r].prior.at
            /\ \A r2 \in CallIds \ {r} :
                  (/\ calls[r2].pc # "idle"
                   /\ calls[r2].url = calls[r].url
                   /\ calls[r2].startedAt >= calls[r].startedAt
                   /\ calls[r2].prior = calls[r].prior)
                      => ~(calls[r2].pc = "done" /\ calls[r2].fetches = 0)

\* A call failed on a non-2xx answer, and a later identical call went to
\* the network again and got a body.
C11_Witness ==
    \E r1, r2 \in CallIds :
        /\ r1 # r2
        /\ calls[r1].pc = "failed" /\ calls[r1].failure.kind = "http"
        /\ calls[r2].url = calls[r1].url
        /\ calls[r2].startedAt > calls[r1].startedAt
        /\ calls[r2].prior = calls[r1].prior
        /\ calls[r2].pc = "done" /\ calls[r2].fetches = 1

OpEnded(kind) == op.kind = kind /\ op.pc \in {"returned", "rejected"}

\* C12: when getTrendingCoins has ended and each category request either
\* failed or answered with a list, it has returned (not rejected) an object
\* with exactly the keys popular, top_gainers, top_losers, recently_added,
\* in which a failed category is the empty list and a successful one holds
\* the coins of its own response.
C12_TrendingSurvivesFailures ==
    (OpEnded("trending") /\ \A i \in 1..4 : ~MapThrows(op.subs[i])) =>
        /\ op.pc = "returned"
        /\ DOMAIN op.result = {TrendingKeys[i] : i \in 1..4}
        /\ \A i \in 1..4 :
              /\ op.subs[i].state = "rejected" =>
                    op.result[TrendingKeys[i]] = <<>>
              /\ op.subs[i].state = "fulfilled" =>
                    op.result[TrendingKeys[i]] =
                        [k \in 1..(op.subs[i].value - 1) |->
                            [id |-> k, price |-> op.subs[i].value - k]]

\* popular and top_losers failed, top_gainers answered a coin and
\* recently_added an empty list, and getTrendingCoins returned.
C12_Witness ==
    /\ OpEnded("trending") /\ op.pc = "returned"
    /\ op.subs[1].state = "rejected" /\ op.subs[3].state = "rejected"
    /\ op.subs[2].state = "fulfilled" /\ op.subs[2].value = 2
    /\ op.subs[4].state = "fulfilled" /\ op.subs[4].value = 1
    /\ op.result.top_gainers # <<>>

\* C13: getCurrentPrices with a non-empty id list returns (never rejects) a
\* map whose keys are exactly the requested ids, where an id whose request
\* failed, or whose ticker is null or has no USD price, maps to 0 and any
\* other id maps to the price of its ticker; with an empty list, when the
\* listing request answers with a list, it returns a map with one entry per
\* ticker of the listing.
C13_PricesSurviveFailures ==
    OpEnded("prices") =>
        /\ Len(op.ids) > 0 =>
              /\ op.pc = "returned"
              /\ DOMAIN op.result = {op.ids[k] : k \in DOMAIN op.ids}
              /\ \A k \in DOMAIN op.ids :
                    (\A j \in DOMAIN op.ids : j > k => op.ids[j] # op.ids[k]) =>
                        op.result[op.ids[k]] =
                            IF op.subs[k].state = "rejected" THEN 0
                            ELSE IF op.subs[k].value = 0 THEN 0
                            ELSE op.subs[k].value - 1
        /\ (/\ Len(op.ids) = 0
            /\ op.subs[1].state = "fulfilled"
            /\ IsArray(op.subs[1].value)) =>
              /\ op.pc = "returned"
              /\ DOMAIN op.result = 1..(op.subs[1].value - 1)
              /\ \A id \in DOMAIN op.result :
                    op.result[id] = op.subs[1].value - id

\* Two ids were asked for, the request of the first failed, the second
\* got a price, and the call returned 0 and that price.
C13_Witness ==
    /\ OpEnded("prices") /\ op.pc = "returned"
    /\ Len(op.ids) = 2 /\ op.ids[1] # op.ids[2]
    /\ op.subs[1].state = "rejected"
    /\ op.subs[2].state = "fulfilled" /\ ~op.subs[2].hit
    /\ op.result[op.ids[1]] = 0
    /\ op.result[op.ids[2]] > 0

\* C14: getCoinDetails rejects with 'Coin ... not found' exactly when the
\* coin-info request failed; when the coin-info request answered a coin, it
\* returns whatever became of the other two: without ticker metrics when
\* the ticker request failed, with an empty chart_data when the OHLCV
\* request failed.
C14_OnlyCoinInfoIsMandatory ==
    OpEnded("details") =>
        /\ (op.pc = "rejected" /\ op.error = CoinNotFound(op.coin))
              <=> op.subs[1].state = "rejected"
        /\ (op.subs[1].state = "fulfilled" /\ Truthy(op.subs[1].value)) =>
              /\ op.pc = "returned"
              /\ op.subs[2].state = "rejected" => op.result.metrics = <<>>
              /\ op.subs[3].state = "rejected" => op.result.chart_data = <<>>

\* The ticker request and the OHLCV request both failed, the coin-info
\* request answered, and getCoinDetails returned.
C14_Witness ==
    /\ OpEnded("details") /\ op.pc = "returned"
    /\ op.subs[1].state = "fulfilled"
    /\ op.subs[2].state = "rejected"
    /\ op.subs[3].state = "rejected"
    /\ op.result.metrics = <<>> /\ op.result.chart_data = <<>>

\* C15: getCoinOHLCV, whatever the coin id and the timeframe token, always
\* returns and never rejects; when its request failed or the body is not a
\* list, what it returns is the empty list.
C15_OHLCVNeverRejects ==
    OpEnded("ohlcv") =>
        /\ op.pc = "returned"
        /\ (op.subs[1].state = "rejected" \/ ~IsArray(op.subs[1].value)) =>
              op.result = <<>>

\* getCoinOHLCV was called with an unknown timeframe token, its request
\* failed, and it returned the empty list.
C15_Witness ==
    /\ OpEnded("ohlcv") /\ op.pc = "returned"
    /\ op.timeframe \notin DOMAIN timeframeMap
    /\ op.subs[1].state = "rejected"
    /\ op.result = <<>>

(***************************************************************************)
(* Properties of the accounts.                                             *)
(***************************************************************************)

\* The registration in slot s has been answered, and its password was long
\* enough to pass the field checks.
Answered(s) ==
    signups[s].pc = "closed" /\ validatePassword(signups[s].password)

RowsOf(rows, email) == Cardinality(getUserByEmail(rows, email))

\* C16: account scenario. With a password of at least 8 characters, the
\* registration that creates the row of a new email is answered 201; a
\* login with a pair whose registration was answered 201 is answered 200
\* and returns a credential of that user; a login with an unknown email or
\* a wrong password is answered 401; the registration of an email that is
\* already registered is answered 409 and creates no row, so that no email
\* has two rows.
C16_AccountScenario ==
    /\ \A s \in SignupIds :
          Answered(s) /\ signups[s].created => signups[s].status = 201
    /\ lastLogin.status # 0 /\ lastLogin.wasRegistered
          => /\ lastLogin.status = 200
             /\ lastLogin.token.kind = "jwt"
             /\ lastLogin.token.sub = lastLogin.user
    /\ lastLogin.status # 0 /\ ~lastLogin.matched => lastLogin.status = 401
    /\ \A s \in SignupIds :
          Answered(s) /\ signups[s].existedAtStart
             => signups[s].status = 409 /\ ~signups[s].created
    /\ \A email \in Emails : RowsOf(accounts, email) <= 1

\* C17: concurrent registration. Of two answered registrations of the same
\* email that both started before the email had a row (and whose own
\* INSERT, if it went through, was answered 201), one is answered 201 and
\* the other 409, and the email has exactly one row.
C17_ConcurrentRegistration ==
    \A s, t \in SignupIds :
        /\ s # t
        /\ Answered(s) /\ Answered(t)
        /\ signups[s].email = signups[t].email
        /\ ~signups[s].existedAtStart /\ ~signups[t].existedAtStart
        /\ \A x \in {s, t} : signups[x].created => signups[x].status = 201
        => /\ {signups[s].status, signups[t].status} = {201, 409}
           /\ RowsOf(accounts, signups[s].email) = 1

(***************************************************************************)
(* Properties of the portfolio.                                            *)
(***************************************************************************)

\* The amount held under a key, by whichever table the variant uses.
Held(userId, coinId) ==
    {row.amount : row \in WithKey(portfolio, userId, coinId)}
       \cup {row.balance : row \in WithKey(user_coins, userId, coinId)}

\* C18: one row per (user id, coin id). Whatever add-coin requests were
\* handled, no key has two rows; a key has a row exactly if an add for it
\* went through, and the amount of the row is the sum of the amounts added.
C18_OneRowPerPairSumsAmounts ==
    \A userId \in Holders, coinId \in Ids :
        /\ Cardinality(WithKey(portfolio, userId, coinId)) <= 1
        /\ Cardinality(WithKey(user_coins, userId, coinId)) <= 1
        /\ IF added[<<userId, coinId>>] = 0
           THEN Held(userId, coinId) = {}
           ELSE Held(userId, coinId) = {added[<<userId, coinId>>]}

\* A key that took two adds.
C18_Witness ==
    /\ reply.route = "add" /\ reply.status = 200
    /\ \E userId \in Holders, coinId \in Ids :
          /\ added[<<userId, coinId>>] = MaxHolding
          /\ Held(userId, coinId) = {MaxHolding}
          /\ reply.amount = <<"1">>

\* x is y / z rounded to the nearest integer (z > 0)
Rounds(x, y, z) == 2 * (x * z - y) <= z /\ 2 * (y - x * z) <= z

RECURSIVE ValueUpTo(_)
\* The sum of the current_value of the returned items of coins 1..n.
ValueUpTo(n) ==
    IF n = 0 THEN 0
    ELSE ValueUpTo(n - 1) +
         (IF \E item \in reply.portfolio : item.coin_id = n
          THEN (CHOOSE item \in reply.portfolio :
                   item.coin_id = n).current_value
          ELSE 0)

\* C19: portfolio read. For every returned item with purchase price p > 0
\* whose latest price L from the gateway is > 0: current_value = a * L, and
\* gain_loss_percentage is (L - p) / p * 100 rounded to 2 decimals; the
\* summary's total_value is the sum of the items' current_value.
C19_ReadValuesAndGain ==
    reply.route = "read" =>
        /\ \A item \in reply.portfolio :
              LET L == reply.prices[item.coin_id]
                  p == item.purchase_price
              IN  p > 0 /\ L > 0 =>
                     /\ item.current_value = item.amount * L
                     /\ Rounds(item.gain_loss_percentage,
                               (L - p) * 10000, p)
        /\ \A coinId \in Ids :
              Cardinality({item \in reply.portfolio :
                              item.coin_id = coinId}) <= 1
        /\ reply.total_value = ValueUpTo(NIds)

\* A read of two holdings, one of which was stored with another price than
\* the gateway now returns, and whose gain is not a whole percent.
C19_Witness ==
    /\ reply.route = "read"
    /\ Cardinality(reply.portfolio) = 2
    /\ \E item \in reply.portfolio :
          /\ reply.prices[item.coin_id] > 0
          /\ item.purchase_price = 3
          /\ item.gain_loss_percentage = 3333
          /\ item.current_value = 2 * 4
    /\ reply.total_value > 8

\* The field is a number: an optional sign and digits, nothing else.
IsNumeric(field) ==
    LET digits == IF field # <<>> /\ field[1] = "-" THEN Tail(field)
                  ELSE field
    IN  digits # <<>> /\ \A i \in DOMAIN digits : digits[i] \in DOMAIN DigitValue

\* missing, non-numeric, or not strictly positive
Invalid(field) ==
    \/ field = <<>>
    \/ ~IsNumeric(field)
    \/ parseFloat(field).v <= 0

\* C20: an add-coin request whose amount is missing, non-numeric or not
\* strictly positive (in the cookie variant, the purchase price as well,
\* which that variant requires) is answered 400 before the handler calls
\* the provider or writes to storage.
C20_InvalidAmountIs400 ==
    /\ reply.route = "add"
    /\ \/ Invalid(reply.amount)
       \/ variant = "cookie" /\ Invalid(reply.purchase_price)
    => reply.status = 400 /\ ~reply.called /\ ~reply.wrote

(***************************************************************************)
(* Properties of the portfolio requests of several users.                  *)
(***************************************************************************)

\* The last request was an add-coin request whose call of
\* getCoinCurrentPrice threw: the handler reached the call and not the
\* write that follows it.
PriceCallFailed(r) == r.route = "add" /\ r.called /\ ~r.wrote

\* C21: provider error during add-coin. When the provider call for the
\* coin's price fails, getCoinCurrentPrice throws its coin-not-found error,
\* the request is answered 404, and the stored holdings are what they were
\* before the request.
C21_PriceErrorIs404NothingStored ==
    [][PriceCallFailed(reply')
          => /\ \A coinId \in Ids :
                   MessageIncludes(PriceError(coinId), "not found")
             /\ reply'.status = 404
             /\ portfolio' = portfolio]_vars

\* A request that was answered 404 while holdings were stored.
C21_Witness ==
    /\ PriceCallFailed(reply) /\ reply.status = 404
    /\ portfolio # {}

\* The holdings of everybody but one user.
OthersRows(rows, userId) == {row \in rows : row.user_id # userId}

\* What a returned item and a stored row say about the holding itself.
Holding(x) ==
    [coin_id |-> x.coin_id, amount |-> x.amount,
     purchase_price |-> x.purchase_price]

\* C22: data scoping. A request handled for the subject userId leaves the
\* rows of every other user as they were, whether it adds a coin or reads
\* the portfolio and writes the prices back; and a read returns the
\* subject's holdings, all of them and no others.
C22_OnlyTheSubjectsRows ==
    [][/\ \A userId \in Holders, coinId \in Ids, answer \in ScopeAnswers :
             AddToPortfolio(userId, coinId, <<"1">>, <<"1">>, answer)
             => OthersRows(portfolio', userId) = OthersRows(portfolio, userId)
       /\ \A userId \in Holders, currentPrices \in ScopePrices :
             GetPortfolio(userId, currentPrices)
             => /\ OthersRows(portfolio', userId)
                      = OthersRows(portfolio, userId)
                /\ {Holding(item) : item \in reply'.portfolio}
                      = {Holding(row) : row \in portfolio \ OthersRows(portfolio, userId)}
      ]_vars

\* A read by a user who holds a coin, answered while another user holds
\* something else, at a price that the read did not store.
C22_Witness ==
    /\ reply.route = "read" /\ reply.portfolio # {}
    /\ \E row \in OthersRows(portfolio, reply.user) :
          /\ Holding(row) \notin {Holding(item) : item \in reply.portfolio}
          /\ row.current_price # reply.prices[row.coin_id]

\* The row was stored with a price, and the lookup of the read that has
\* just been answered gave 0 for its coin.
LookupFailedFor(row, r) ==
    /\ r.route = "read" /\ row.user_id = r.user
    /\ r.prices[row.coin_id] = 0
    /\ row.current_price # 0

\* C26: fallback to the stored price. When a read's price lookup for a
\* holding fails or yields 0 and the holding was stored with a non-zero
\* current_price, the returned item carries the stored price and the
\* write-back leaves the stored current_price as it was.
C26_StoredPriceSurvivesFailedLookup ==
    [][\A row \in portfolio :
          LookupFailedFor(row, reply')
          => /\ \E item \in reply'.portfolio :
                   /\ item.coin_id = row.coin_id
                   /\ item.current_price = row.current_price
             /\ WithKey(portfolio', row.user_id, row.coin_id) # {}
             /\ \A after \in WithKey(portfolio', row.user_id, row.coin_id) :
                   after.current_price = row.current_price]_vars

\* A read whose lookup gave 0 for a holding that has a price stored.
C26_Witness ==
    \E row \in portfolio :
        /\ LookupFailedFor(row, reply)
        /\ \E item \in reply.portfolio :
              item.coin_id = row.coin_id /\ item.current_price > 1

(***************************************************************************)
(* Further properties of the cache, the stored holdings and the activity   *)
(* log.                                                                    *)
(***************************************************************************)

\* C25: the two maps of the cache have the same keys, whatever was stored,
\* looked up and evicted.
C25_CacheMapsShareKeys == DOMAIN cache.data = DOMAIN cache.timestamps

\* An entry has been evicted while another one is held.
C25_Witness ==
    /\ DOMAIN cache.data # {}
    /\ \E url \in DOMAIN lastStored :
          /\ Truthy(lastStored[url].data)
          /\ url \notin DOMAIN cache.data
          /\ url \notin DOMAIN cache.timestamps

\* C27: every stored holding has current_value = amount * current_price,
\* also right after a second add of a coin that is already held.
C27_ValueIsAmountTimesPrice ==
    \A row \in portfolio : row.current_value = row.amount * row.current_price

\* C28: the activity-log write never fails the operation it belongs to.
\* Every action type that is logged is in the action_type enumeration; a
\* signup that has created its user is answered 201, and a login with the
\* right password is answered 200.
C28_LogWriteNeverFailsTheOperation ==
    /\ \A s \in SignupIds :
          signups[s].pc = "closed" /\ signups[s].created
             => /\ \A actionType \in LoggedActions :
                      ~LogActivityThrows(actionType, TRUE)
                /\ signups[s].status = 201
    /\ lastLogin.status # 0 /\ lastLogin.matched => lastLogin.status = 200

(***************************************************************************)
(* Properties of the session cleanup.                                      *)
(***************************************************************************)

\* The token hashes a request can present: those of the rows, and those
\* of the issued tokens under any salt.
TokenHashes ==
    {row.token_hash : row \in sessions}
       \cup {hashToken(tok, salt) : tok \in issued, salt \in Salts}

\* C29: cleanup is invisible to verification. For every token hash,
\* verifySessionToken returns now, and at any later time, what it would
\* return had cleanupExpiredSessions just run; the rows that cleanup would
\* delete are rows that verifySessionToken already rejects.
C29_CleanupIsInvisible ==
    /\ \A tokenHash \in TokenHashes, t \in now..MaxTime :
          verifySessionToken(cleanupExpiredSessions(sessions, now),
                             tokenHash, t)
             = verifySessionToken(sessions, tokenHash, t)
    /\ \A row \in sessions \ cleanupExpiredSessions(sessions, now) :
          row \notin verifySessionToken(sessions, row.token_hash, now)

\* Cleanup has deleted the rows of the tokens that were issued, at the
\* very time they expired.
C29_Witness ==
    /\ variant = "cookie" /\ issued # {}
    /\ now = COOKIE_TOKEN_DAYS
    /\ sessions = {}

(***************************************************************************)
(* Properties of the trending route and of the page.                       *)
(***************************************************************************)

\* The coins of a sequence.
Range(s) == {s[i] : i \in DOMAIN s}

\* C23: the trending route answers with the 20 coins of the provider's
\* list that have the best (lowest) rank, or all of them if there are
\* fewer, the best rank first.
C23_TrendingIsTop20ByRank ==
    trend.status = 200 =>
        /\ Len(trend.coins) =
              (IF Len(trend.allCoins) < TRENDING_LIMIT
               THEN Len(trend.allCoins) ELSE TRENDING_LIMIT)
        /\ Range(trend.coins) \subseteq Range(trend.allCoins)
        /\ \A i, j \in DOMAIN trend.coins :
              i < j => trend.coins[i].rank <= trend.coins[j].rank
        /\ \A left \in Range(trend.allCoins) \ Range(trend.coins),
              kept \in Range(trend.coins) : kept.rank <= left.rank

\* The events, and the requests, of one view.
OfView(s, view) == SelectSeq(s, LAMBDA x : x.view = view)

\* Every event came less than the wait time after the one before it.
IsBurst(events) ==
    \A i \in 2..Len(events) : events[i].at - events[i - 1].at < WAIT

\* C24: debounce. As long as the input events of a view form one burst,
\* each less than 500 ms after the one before, the view has sent at most
\* one search request, and that one with the query of the last event.
C24_BurstSendsOneRequest ==
    \A view \in Views :
        LET events == OfView(search.events, view)
            requests == OfView(search.requests, view)
        IN  events # <<>> /\ IsBurst(events) =>
               /\ Len(requests) <= 1
               /\ \A i \in DOMAIN requests :
                     requests[i].query = events[Len(events)].query

\* C30: the displayed total. After any loads and toggles, the total shows
\* the formatted total_value of the last load while the balance is
\* visible, and the mask while it is hidden.
C30_DisplayedTotal ==
    display.loads > 0 =>
        display.textContent =
           (IF display.balanceVisible THEN formatCurrency(display.total)
            ELSE MASK)

====
